---- MODULE Spec2Model ----
(***************************************************************************)
(* Compact Block Filter manager (p2p/src/protocol/cbfmgr.rs) and the       *)
(* filter-header cache (chain/src/filter/cache.rs) of nakamoto, as a       *)
(* state machine.  One action per input of the manager; every action runs  *)
(* the whole handler, nested calls (sync, get_cfilters, process) included. *)
(***************************************************************************)
EXTENDS Integers, Sequences, FiniteSets, TLC

(***************************************************************************)
(* Bounds of the model.                                                    *)
(***************************************************************************)
\* Highest block height the block tree reaches.
MaxHeight == 2
\* The clock stops at IDLE_TIMEOUT * MaxTicks.
MaxTicks == 1

(***************************************************************************)
(* Program constants.                                                      *)
(***************************************************************************)
\* LocalDuration::BLOCK_INTERVAL, in minutes.
IDLE_TIMEOUT == 10
MAX_MESSAGE_CFHEADERS == 2000
MAX_MESSAGE_CFILTERS == 1000

\* Option::None for an Option<Height> / Option<LocalTime>.
NoneH == -1

(***************************************************************************)
(* Values: peers, scripts, transactions, filters, hashes.                  *)
(***************************************************************************)
PeerIds == {1, 2}
\* The peer named in an output when there is none (never emitted).
NoPeer == 0

Scripts == {1, 2, 3}
Txids == {1}
\* tx.output scripts of the transactions the client may watch.
TxOutputs(txid) == {2, 3}

\* The compact filters that exist: each is the set of scripts of a block.
Filters == {1, 2, 3}
FilterContent(f) == CASE f = 1 -> {1}
                      [] f = 2 -> {2, 3}
                      [] OTHER -> {2}

\* BlockFilter::filter_hash: the hash of the filter's bytes.
FilterHashOf(f) == f + 10
\* The filter hashes peers put into cfheaders messages.
FilterHashes == {FilterHashOf(1), FilterHashOf(2)}

\* FilterHash::filter_header(prev) = sha256d(hash || prev): a mixing function
\* that commits to both arguments.
HashPrime == 1000003
FilterHeaderOf(hash, prev) == (prev * 31 + hash) % HashPrime

\* BlockFilter::filter_header(prev).
BlockFilterHeader(f, prev) == FilterHeaderOf(FilterHashOf(f), prev)

\* FilterHeader::default(): the all-zero header.
ZeroHeader == 0
\* StoredHeader::genesis(network).
GenesisFilter == 1
GenesisStoredHeader ==
    [hash |-> FilterHashOf(GenesisFilter),
     header |-> FilterHeaderOf(FilterHashOf(GenesisFilter), ZeroHeader)]

\* A filter whose bytes are no Golomb-coded set: match_any and match_all
\* return a bip158::Error for it.  A peer may commit to such a filter.
CorruptFilter == 4
Undecodable(f) == f = CorruptFilter

\* bip158 BlockFilter::match_any / match_all (an empty query matches).
MatchAny(f, keys) == IF keys = {} THEN TRUE ELSE FilterContent(f) \cap keys # {}
MatchAll(f, keys) == IF keys = {} THEN TRUE ELSE keys \subseteq FilterContent(f)

(***************************************************************************)
(* The block tree (read-only collaborator): the chain of heights 0..tree.  *)
(***************************************************************************)
\* The hash of the block at height h, and a hash of no block.
HashBase == 10000
BlockHashAt(h) == HashBase + h
UnknownBlockHash == HashBase - 1
\* tree.get_block(hash): the height, or NoneH.
GetBlock(treeHeight, hash) ==
    IF hash >= HashBase /\ hash - HashBase <= treeHeight
    THEN hash - HashBase ELSE NoneH
\* tree.get_block_by_height(h).is_some()
HasBlockAt(treeHeight, h) == h >= 0 /\ h <= treeHeight

(***************************************************************************)
(* FilterCache: headers is the NonEmpty<StoredHeader> (index 1 is height   *)
(* 0), store is the header store behind it.                                *)
(***************************************************************************)
Min(a, b) == IF a < b THEN a ELSE b
Max(a, b) == IF a > b THEN a ELSE b

\* FilterCache::height: self.headers.tail.len()
CacheHeight(hs) == Len(hs) - 1

\* FilterCache::tip: the header of self.headers.last()
CacheTip(hs) == hs[Len(hs)].header

\* FilterCache::get_header: Some(height) iff the record exists.
HasHeader(hs, h) == h >= 0 /\ h + 1 <= Len(hs)
GetHeader(hs, h) == hs[h + 1]

\* Filters::get_prev_header
GetPrevHeader(hs, h) == IF h = 0 THEN ZeroHeader ELSE hs[h].header

\* self.headers.iter().skip(start).take(n)
SkipTake(hs, start, n) ==
    LET first == start + 1
        last == Min(Len(hs), start + n)
    IN  IF first > last THEN <<>> ELSE SubSeq(hs, first, last)
\* FilterCache::get_headers(start..end): skip(start).take(end - start), the
\* subtraction being one of usize.  With start > end it has no value: a
\* build that checks overflow aborts there (panic), any other build wraps
\* it to 2^64 - (start - end), which is more than the cache can hold, so
\* that take keeps every record from start on.
GetHeaders(hs, start, end) ==
    IF start <= end
    THEN {[panic |-> FALSE, headers |-> SkipTake(hs, start, end - start)]}
    ELSE {[panic |-> TRUE, headers |-> <<>>],
          [panic |-> FALSE, headers |-> SkipTake(hs, start, Len(hs))]}

\* FilterCache::verify
RECURSIVE VerifyFrom(_, _, _)
VerifyFrom(hs, i, prev) ==
    IF i > Len(hs) THEN TRUE
    ELSE /\ hs[i].header = FilterHeaderOf(hs[i].hash, prev)
         /\ VerifyFrom(hs, i + 1, hs[i].header)
Verify(hs) ==
    /\ hs[1].header = GenesisStoredHeader.header
    /\ VerifyFrom(hs, 1, ZeroHeader)

\* store::Memory::put: append, return the new tip height.
StorePut(st, new) == st \o new
\* store::Memory::rollback(height): truncate to height.
StoreRollback(st, height) == SubSeq(st, 1, height + 1)

\* FilterCache::import_headers: extend the tail, put to the store, return the
\* store's new height.
ImportHeaders(hs, st, new) ==
    [headers |-> hs \o new,
     store |-> StorePut(st, new),
     height |-> Len(StorePut(st, new)) - 1]

\* FilterCache::import_headers when header_store.put returns an error: the
\* tail was extended before the put was tried, and stays extended.
ImportHeadersPutFails(hs, st, new) ==
    [headers |-> hs \o new, store |-> st]

\* A rollback that forgets to truncate the cache, and one that keeps one
\* header too many.
CacheRollbackStoreOnly(hs, st, n) ==
    [headers |-> hs, store |-> StoreRollback(st, CacheHeight(hs) - n)]
CacheRollbackOffByOne(hs, st, n) ==
    LET height == CacheHeight(hs) - n
    IN  [headers |-> SubSeq(hs, 1, height + 2),
         store |-> StoreRollback(st, height)]
\* FilterCache::rollback(n)
CacheRollback(hs, st, n) ==
    LET height == CacheHeight(hs) - n
    IN  [headers |-> SubSeq(hs, 1, height + 1),
         store |-> StoreRollback(st, height)]

\* A fold that never advances last_header.
ChainHeadersFlat(hashes, prev) ==
    [i \in 1..Len(hashes) |->
        [hash |-> hashes[i], header |-> FilterHeaderOf(hashes[i], prev)]]
\* The fold of received_cfheaders: (hash, header) pairs chained from prev,
\* each header made of its hash and the header before it.  The list is
\* folded by halves, the second half chained onto the last header of the
\* first, so that a message of MAX_MESSAGE_CFHEADERS hashes can be folded.
RECURSIVE ChainHeaders(_, _)
ChainHeaders(hashes, prev) ==
    IF hashes = <<>> THEN <<>>
    ELSE IF Len(hashes) = 1
    THEN LET last_header == FilterHeaderOf(Head(hashes), prev)
         IN  <<[hash |-> Head(hashes), header |-> last_header]>>
    ELSE LET mid == Len(hashes) \div 2
             left == ChainHeaders(SubSeq(hashes, 1, mid), prev)
         IN  left \o ChainHeaders(SubSeq(hashes, mid + 1, Len(hashes)),
                                  left[Len(left)].header)

(***************************************************************************)
(* State of the FilterManager and of its collaborators.                    *)
(***************************************************************************)
VARIABLES
    tree,        \* height of the block-header tree (blocks 0..tree exist)
    clock,       \* local time, in minutes
    headers,     \* FilterCache.headers
    store,       \* FilterCache.header_store
    peers,       \* FilterManager.peers: the keys of the AddressBook
    rescan,      \* FilterManager.rescan
    last_idle,   \* FilterManager.last_idle
    inflight,    \* FilterManager.inflight: stop hash -> dispatch time
    out,         \* what the last input sent upstream, in emission order
    result,      \* what the last input returned
    crashed,     \* the last input panicked: the process is gone
    processed,   \* heights of the FilterProcessed events of the current rescan
    returned,    \* blocks returned by received_cfilter during the current rescan
    delivered,   \* heights whose valid filter arrived since the last rescan()
    rescan_result  \* what the last rescan() returned ("None" before the first)

vars == <<tree, clock, headers, store, peers, rescan, last_idle, inflight, out,
          result, crashed, processed, returned, delivered, rescan_result>>

\* An output of the manager: a message to a peer, a timer request or an event.
Output(type, peer, height, hash, matched, aux, data) ==
    [type |-> type, peer |-> peer, height |-> height, hash |-> hash,
     matched |-> matched, aux |-> aux, data |-> data]

GetCFHeadersOut(peer, start, stop_hash) ==
    Output("get_cfheaders", peer, start, stop_hash, FALSE, 0, <<>>)
GetCFiltersOut(peer, start, stop_hash) ==
    Output("get_cfilters", peer, start, stop_hash, FALSE, 0, <<>>)
SendCFHeadersOut(peer, stop_hash, prev_header, hashes) ==
    Output("send_cfheaders", peer, 0, stop_hash, FALSE, prev_header, hashes)
SetTimeoutOut(duration) ==
    Output("set_timeout", NoPeer, 0, 0, FALSE, duration, <<>>)
SyncingEv(peer, start, stop_hash) ==
    Output("Syncing", peer, start, stop_hash, FALSE, 0, <<>>)
SyncedEv(height) == Output("Synced", NoPeer, height, 0, FALSE, 0, <<>>)
FilterHeadersImportedEv(height, block_hash) ==
    Output("FilterHeadersImported", NoPeer, height, block_hash, FALSE, 0, <<>>)
FilterReceivedEv(from, filter, height, block_hash) ==
    Output("FilterReceived", from, height, block_hash, FALSE, filter, <<>>)
FilterProcessedEv(block, height, matched) ==
    Output("FilterProcessed", NoPeer, height, block, matched, 0, <<>>)
RescanCompletedEv(height) ==
    Output("RescanCompleted", NoPeer, height, 0, FALSE, 0, <<>>)
RequestCanceledEv == Output("RequestCanceled", NoPeer, 0, 0, FALSE, 0, <<>>)

\* The value an input returned: Ok(value) / Ok(blocks), or the error kind.
Returned(op, kind, value, blocks) ==
    [op |-> op, kind |-> kind, value |-> value, blocks |-> blocks]

\* Rescan::default()
RescanDefault ==
    [active |-> FALSE, current |-> 0, start |-> NoneH, end |-> NoneH,
     watch |-> {}, transactions |-> <<>>, requested |-> {}, received |-> <<>>]

\* HashMap::insert / HashMap::remove
MapInsert(m, k, v) == [x \in DOMAIN m \cup {k} |-> IF x = k THEN v ELSE m[x]]
MapRemove(m, k) == [x \in DOMAIN m \ {k} |-> m[x]]

\* Orders in which AddressBook::cycle may visit the peers.
PeerOrders(prs) ==
    IF prs = {} THEN {<<>>}
    ELSE {o \in [1..Cardinality(prs) -> prs] :
            \A i, j \in 1..Cardinality(prs) : i # j => o[i] # o[j]}
\* A sample drawn from every peer id ever heard of, in the table or not.
SamplesAnyPeer(prs) == IF prs = {} THEN {NoPeer} ELSE PeerIds
\* Peers AddressBook::sample may return (NoPeer stands for None).
Samples(prs) == IF prs = {} THEN {NoPeer} ELSE prs

(***************************************************************************)
(* HeightIterator                                                          *)
(***************************************************************************)
RECURSIVE HeightIterator(_, _, _)
HeightIterator(start, stop, step) ==
    IF start < stop
    THEN LET s == start
             e == Min(stop, start + step - 1)
         IN  <<[start |-> s, end |-> e]>> \o HeightIterator(e + 1, stop, step)
    ELSE <<>>

(***************************************************************************)
(* FilterManager::get_cfilters(lo..=hi)                                    *)
(***************************************************************************)
\* The loop over iter.zip(peers.cycle()): the requests sent before the first
\* batch whose stop block is missing, and whether such a batch exists.
RECURSIVE CFilterRequests(_, _, _, _)
CFilterRequests(batches, i, ord, treeHeight) ==
    IF i > Len(batches) THEN [out |-> <<>>, ok |-> TRUE]
    ELSE IF ~HasBlockAt(treeHeight, batches[i].end - 1)
         THEN [out |-> <<>>, ok |-> FALSE]
         ELSE LET peer == ord[((i - 1) % Len(ord)) + 1]
                  rest == CFilterRequests(batches, i + 1, ord, treeHeight)
              IN  [out |-> <<GetCFiltersOut(peer, batches[i].start,
                                            BlockHashAt(batches[i].end - 1))>>
                           \o rest.out,
                   ok |-> rest.ok]

GetCfilters(lo, hi, treeHeight, prs, ord, resc) ==
    IF lo > hi THEN [out |-> <<>>, rescan |-> resc, kind |-> "Ok"]
    ELSE IF prs = {}
    THEN [out |-> <<>>, rescan |-> resc, kind |-> "NotConnected"]
    ELSE LET iter == HeightIterator(lo, hi + 1, MAX_MESSAGE_CFILTERS)
             reqs == CFilterRequests(iter, 1, ord, treeHeight)
         IN  IF ~reqs.ok
             THEN [out |-> reqs.out, rescan |-> resc, kind |-> "InvalidRange"]
             ELSE [out |-> reqs.out,
                   rescan |-> IF resc.active
                              THEN [resc EXCEPT !.requested = @ \cup (lo..hi)]
                              ELSE resc,
                   kind |-> "Ok"]

(***************************************************************************)
(* FilterManager::send_getcfheaders(start..end) and FilterManager::sync    *)
(***************************************************************************)
\* A request that is dropped without an event when no peer is in the table.
SendGetcfheadersSilent(start, end, treeHeight, infl, prs, p, time) ==
    LET count == end - start
        stop_hash == IF count > MAX_MESSAGE_CFHEADERS
                     THEN BlockHashAt(start + MAX_MESSAGE_CFHEADERS - 1)
                     ELSE BlockHashAt(treeHeight)
        none == [inflight |-> infl, out |-> <<>>, sent |-> FALSE,
                 peer |-> NoPeer, start |-> start, stop_hash |-> stop_hash]
    IN  IF start >= end THEN none
        ELSE IF stop_hash \in DOMAIN infl THEN none
        ELSE IF prs # {}
        THEN [inflight |-> MapInsert(infl, stop_hash, time),
              out |-> <<GetCFHeadersOut(p, start, stop_hash)>>,
              sent |-> TRUE, peer |-> p, start |-> start,
              stop_hash |-> stop_hash]
        ELSE none
\* A request that is sent again while the same stop hash is inflight.
SendGetcfheadersTwice(start, end, treeHeight, infl, prs, p, time) ==
    LET count == end - start
        stop_hash == IF count > MAX_MESSAGE_CFHEADERS
                     THEN BlockHashAt(start + MAX_MESSAGE_CFHEADERS - 1)
                     ELSE BlockHashAt(treeHeight)
        none == [inflight |-> infl, out |-> <<>>, sent |-> FALSE,
                 peer |-> NoPeer, start |-> start, stop_hash |-> stop_hash]
    IN  IF start >= end THEN none
        ELSE IF prs # {}
        THEN [inflight |-> MapInsert(infl, stop_hash, time),
              out |-> <<GetCFHeadersOut(p, start, stop_hash)>>,
              sent |-> TRUE, peer |-> p, start |-> start,
              stop_hash |-> stop_hash]
        ELSE [none EXCEPT !.out = <<RequestCanceledEv>>]
\* A request whose cap ends one block too far.
SendGetcfheadersCapOff(start, end, treeHeight, infl, prs, p, time) ==
    LET count == end - start
        stop_hash == IF count > MAX_MESSAGE_CFHEADERS
                     THEN BlockHashAt(start + MAX_MESSAGE_CFHEADERS)
                     ELSE BlockHashAt(treeHeight)
        none == [inflight |-> infl, out |-> <<>>, sent |-> FALSE,
                 peer |-> NoPeer, start |-> start, stop_hash |-> stop_hash]
    IN  IF start >= end THEN none
        ELSE IF stop_hash \in DOMAIN infl THEN none
        ELSE IF prs # {}
        THEN [inflight |-> MapInsert(infl, stop_hash, time),
              out |-> <<GetCFHeadersOut(p, start, stop_hash)>>,
              sent |-> TRUE, peer |-> p, start |-> start,
              stop_hash |-> stop_hash]
        ELSE [none EXCEPT !.out = <<RequestCanceledEv>>]
SendGetcfheaders(start, end, treeHeight, infl, prs, p, time) ==
    LET count == end - start
        stop_hash == IF count > MAX_MESSAGE_CFHEADERS
                     THEN BlockHashAt(start + MAX_MESSAGE_CFHEADERS - 1)
                     ELSE BlockHashAt(treeHeight)
        none == [inflight |-> infl, out |-> <<>>, sent |-> FALSE,
                 peer |-> NoPeer, start |-> start, stop_hash |-> stop_hash]
    IN  IF start >= end THEN none
        ELSE IF stop_hash \in DOMAIN infl THEN none
        ELSE IF prs # {}
        THEN [inflight |-> MapInsert(infl, stop_hash, time),
              out |-> <<GetCFHeadersOut(p, start, stop_hash)>>,
              sent |-> TRUE, peer |-> p, start |-> start,
              stop_hash |-> stop_hash]
        ELSE [none EXCEPT !.out = <<RequestCanceledEv>>]

Sync(hs, treeHeight, infl, prs, p, time) ==
    LET filter_height == CacheHeight(hs)
        block_height == treeHeight
    IN  IF filter_height < block_height
        THEN LET r == SendGetcfheaders(filter_height + 1, block_height + 1,
                                       treeHeight, infl, prs, p, time)
             IN  [inflight |-> r.inflight,
                  out |-> IF r.sent
                          THEN r.out \o <<SyncingEv(r.peer, r.start, r.stop_hash)>>
                          ELSE r.out,
                  panic |-> FALSE]
        ELSE [inflight |-> infl, out |-> <<>>,
              panic |-> filter_height > block_height]

(***************************************************************************)
(* FilterManager::process                                                  *)
(***************************************************************************)
\* A match that takes any output of a watched transaction for all of them.
MatchedAnyOutput(filter, watch, transactions) ==
    \/ watch # {} /\ MatchAny(filter, watch)
    \/ \E t \in DOMAIN transactions : MatchAny(filter, transactions[t])
\* The match of one filter against the watch list, then the transactions.
Matched(filter, watch, transactions) ==
    LET by_watch == IF watch # {} THEN MatchAny(filter, watch) ELSE FALSE
    IN  IF ~by_watch /\ DOMAIN transactions # {}
        THEN \E t \in DOMAIN transactions :
               \* match_all(..).unwrap_or(false)
               ~Undecodable(filter) /\ MatchAll(filter, transactions[t])
        ELSE by_watch

\* A loop that returns the match of the first filter it processes only.
RECURSIVE ProcessLoopFirstMatch(_, _, _, _)
ProcessLoopFirstMatch(received, current, watch, transactions) ==
    IF current \in DOMAIN received
         /\ watch # {} /\ Undecodable(received[current].filter)
    THEN \* match_any(..)? returns the error: the filter is gone from
         \* received, nothing more is processed.
         [received |-> MapRemove(received, current), current |-> current,
          matches |-> <<>>, out |-> <<>>, err |-> TRUE]
    ELSE IF current \in DOMAIN received
    THEN LET filter == received[current].filter
             block_hash == received[current].block_hash
             matched == Matched(filter, watch, transactions)
             rest == ProcessLoopFirstMatch(MapRemove(received, current),
                                           current + 1, watch, transactions)
         IN  [received |-> rest.received,
              current |-> rest.current,
              matches |-> IF matched THEN <<block_hash>> ELSE <<>>,
              out |-> <<FilterProcessedEv(block_hash, current, matched)>>
                      \o rest.out,
              err |-> rest.err]
    ELSE [received |-> received, current |-> current, matches |-> <<>>,
          out |-> <<>>, err |-> FALSE]
\* The while loop: remove and match received[current], advance current.
RECURSIVE ProcessLoop(_, _, _, _)
ProcessLoop(received, current, watch, transactions) ==
    IF current \in DOMAIN received
         /\ watch # {} /\ Undecodable(received[current].filter)
    THEN \* match_any(..)? returns the error: the filter is gone from
         \* received, nothing more is processed.
         [received |-> MapRemove(received, current), current |-> current,
          matches |-> <<>>, out |-> <<>>, err |-> TRUE]
    ELSE IF current \in DOMAIN received
    THEN LET filter == received[current].filter
             block_hash == received[current].block_hash
             matched == Matched(filter, watch, transactions)
             rest == ProcessLoop(MapRemove(received, current), current + 1,
                                 watch, transactions)
         IN  [received |-> rest.received,
              current |-> rest.current,
              matches |-> (IF matched THEN <<block_hash>> ELSE <<>>)
                          \o rest.matches,
              out |-> <<FilterProcessedEv(block_hash, current, matched)>>
                      \o rest.out,
              err |-> rest.err]
    ELSE [received |-> received, current |-> current, matches |-> <<>>,
          out |-> <<>>, err |-> FALSE]

Process(resc) ==
    LET loop == ProcessLoop(resc.received, resc.current, resc.watch,
                            resc.transactions)
        done == resc.end # NoneH /\ loop.current = resc.end
    IN  IF loop.err
        THEN \* The ? leaves the function before self.rescan.current is
             \* assigned; the events of the loop are out already.
             [rescan |-> [resc EXCEPT !.received = loop.received],
              out |-> loop.out, matches |-> <<>>, err |-> TRUE]
        ELSE [rescan |-> [resc EXCEPT !.received = loop.received,
                                      !.current = loop.current,
                                      !.active = IF done THEN FALSE ELSE @],
              out |-> IF done
                      THEN loop.out \o <<RescanCompletedEv(resc.end)>>
                      ELSE loop.out,
              matches |-> loop.matches, err |-> FALSE]

(***************************************************************************)
(* FilterManager::headers_imported(start, stop)                            *)
(***************************************************************************)
HeadersImported(start, stop, treeHeight, prs, ord, resc) ==
    IF ~resc.active THEN [out |-> <<>>, rescan |-> resc, kind |-> "Ok"]
    ELSE LET lo == Max(start, resc.current)
             hi == Min(stop, IF resc.end = NoneH THEN stop ELSE resc.end)
         IN  GetCfilters(lo, hi, treeHeight, prs, ord, resc)

(***************************************************************************)
(* Inputs the environment may deliver.                                     *)
(***************************************************************************)
Heights == 0..MaxHeight
BlockHashes == {BlockHashAt(h) : h \in Heights} \cup {UnknownBlockHash}

\* std::ops::Bound<Height>
Unbounded == [kind |-> "Unbounded", h |-> 0]
Included(h) == [kind |-> "Included", h |-> h]
Excluded(h) == [kind |-> "Excluded", h |-> h]
\* Start at: the tip, 0, 1 (as Excluded(0)), 2, ..; end at: never, 1, 2, ..,
\* MaxHeight (as Excluded(MaxHeight + 1)).
StartBounds == {Unbounded, Included(0), Excluded(0)}
               \cup {Included(h) : h \in 2..MaxHeight}
EndBounds == {Unbounded, Excluded(MaxHeight + 1)}
             \cup {Included(h) : h \in 1..(MaxHeight - 1)}
WatchLists == {{}, {3}}
WatchScripts == {2}

\* cfheaders with more hashes than a message may carry.
TooManyHashes == [i \in 1..(MAX_MESSAGE_CFHEADERS + 1) |-> FilterHashOf(1)]
HashLists ==
    UNION {[1..n -> FilterHashes] : n \in 0..MaxHeight} \cup {TooManyHashes}
CFHeadersMsg(filter_type, stop_hash, prev, hashes) ==
    [filter_type |-> filter_type, stop_hash |-> stop_hash,
     previous_filter_header |-> prev, filter_hashes |-> hashes]
\* A header that is not our tip: a stale previous_filter_header.
StaleHeader(hs) ==
    IF CacheTip(hs) = ZeroHeader THEN GenesisStoredHeader.header ELSE ZeroHeader
\* The cfheaders messages a peer may send with stop hash sh: every hash list
\* chained onto our tip, one stale message and one of a wrong type.
CFHeadersMsgs(hs, sh) ==
    {CFHeadersMsg(0, sh, CacheTip(hs), hl) : hl \in HashLists}
    \cup {CFHeadersMsg(0, sh, StaleHeader(hs), <<FilterHashOf(1)>>),
          CFHeadersMsg(1, sh, CacheTip(hs), <<FilterHashOf(1)>>)}
\* All of them for a stop hash that is inflight; unsolicited messages are
\* told apart by nothing but their stop hash, so one for each other hash.
CFHeadersInputs(hs, infl) ==
    UNION {IF sh \in DOMAIN infl
           THEN CFHeadersMsgs(hs, sh)
           ELSE {CFHeadersMsg(0, sh, CacheTip(hs), <<FilterHashOf(1)>>)} :
           sh \in BlockHashes}

CFilterMsgs ==
    [filter_type : {0}, block_hash : BlockHashes, filter : Filters]
    \cup [filter_type : {1}, block_hash : {BlockHashAt(0)}, filter : {1}]

GetCFHeadersMsgs ==
    [filter_type : {0}, start_height : Heights,
     stop_hash : BlockHashes \ {BlockHashAt(0)}]
    \cup [filter_type : {1}, start_height : {0}, stop_hash : {BlockHashAt(1)}]

\* (services has COMPACT_FILTERS, link is outbound) of a negotiated peer.
Negotiations == {<<TRUE, TRUE>>, <<FALSE, TRUE>>, <<TRUE, FALSE>>}

(***************************************************************************)
(* Actions: the inputs of the FilterManager.                               *)
(***************************************************************************)
\* State the manager does not own, or that an input leaves alone.
HistoryUnchanged ==
    UNCHANGED <<processed, returned, delivered, rescan_result>>

\* FilterManager::initialize
Initialize ==
    /\ ~crashed
    /\ out' = <<SetTimeoutOut(IDLE_TIMEOUT)>>
    /\ result' = Returned("initialize", "Ok", 0, <<>>)
    /\ UNCHANGED <<tree, clock, headers, store, peers, rescan, last_idle,
                   inflight, crashed>>
    /\ HistoryUnchanged

\* FilterManager::received_tick -> idle, at a later local time.
ReceivedTick(dt) ==
    /\ ~crashed
    /\ clock + dt <= IDLE_TIMEOUT * MaxTicks
    /\ clock' = clock + dt
    /\ LET now == clock + dt
           last == IF last_idle = NoneH THEN 0 ELSE last_idle
       IN  IF now - last >= IDLE_TIMEOUT
           THEN \E p \in Samples(peers) :
                  LET s == Sync(headers, tree, inflight, peers, p, now)
                  IN  /\ crashed' = s.panic
                      /\ out' = IF s.panic THEN s.out
                                ELSE s.out \o <<SetTimeoutOut(IDLE_TIMEOUT)>>
                      /\ last_idle' = IF s.panic THEN last_idle ELSE now
                      /\ inflight' = IF s.panic THEN s.inflight ELSE <<>>
                      /\ result' = Returned("received_tick",
                                            IF s.panic THEN "Panic" ELSE "Ok",
                                            0, <<>>)
           ELSE /\ out' = <<>>
                /\ result' = Returned("received_tick", "Ok", 0, <<>>)
                /\ UNCHANGED <<last_idle, inflight, crashed>>
    /\ UNCHANGED <<tree, headers, store, peers, rescan>>
    /\ HistoryUnchanged

\* FilterManager::rollback
Rollback(n) ==
    /\ ~crashed
    /\ n <= CacheHeight(headers)
    /\ LET r == CacheRollback(headers, store, n)
       IN  /\ headers' = r.headers
           /\ store' = r.store
    /\ out' = <<>>
    /\ result' = Returned("rollback", "Ok", 0, <<>>)
    /\ UNCHANGED <<tree, clock, peers, rescan, last_idle, inflight, crashed>>
    /\ HistoryUnchanged

\* FilterManager::watch
Watch(script) ==
    /\ ~crashed
    /\ rescan' = [rescan EXCEPT !.watch = @ \cup {script}]
    /\ out' = <<>>
    /\ result' = Returned("watch",
                          IF script \in rescan.watch THEN "false" ELSE "true",
                          0, <<>>)
    /\ UNCHANGED <<tree, clock, headers, store, peers, last_idle, inflight,
                   crashed>>
    /\ HistoryUnchanged

\* FilterManager::watch_transactions
WatchTransactions(txids) ==
    /\ ~crashed
    /\ rescan' = [rescan EXCEPT !.transactions =
                    [t \in DOMAIN @ \cup txids |->
                        IF t \in txids THEN TxOutputs(t) ELSE @[t]]]
    /\ out' = <<>>
    /\ result' = Returned("watch_transactions", "Ok", 0, <<>>)
    /\ UNCHANGED <<tree, clock, headers, store, peers, last_idle, inflight,
                   crashed>>
    /\ HistoryUnchanged

\* FilterManager::unwatch_transaction
UnwatchTransaction(txid) ==
    /\ ~crashed
    /\ rescan' = [rescan EXCEPT !.transactions = MapRemove(@, txid)]
    /\ out' = <<>>
    /\ result' = Returned("unwatch_transaction",
                          IF txid \in DOMAIN rescan.transactions
                          THEN "true" ELSE "false", 0, <<>>)
    /\ UNCHANGED <<tree, clock, headers, store, peers, last_idle, inflight,
                   crashed>>
    /\ HistoryUnchanged

\* The state rescan() sets before it asks for filters.
RescanReset(start, end, watch, treeHeight) ==
    LET s == CASE start.kind = "Unbounded" -> NoneH
               [] start.kind = "Included" -> start.h
               [] OTHER -> start.h + 1
        e == CASE end.kind = "Unbounded" -> NoneH
               [] end.kind = "Included" -> end.h
               [] OTHER -> end.h - 1
    IN  [active |-> TRUE, received |-> <<>>, start |-> s, end |-> e,
         current |-> IF s = NoneH THEN treeHeight + 1 ELSE s,
         watch |-> watch, transactions |-> <<>>, requested |-> {}]

\* A manager that lets a new rescan replace the active one.
RescanNeverRefused(resc) == FALSE
\* rescan() refuses to start while a rescan is active.
RescanRefused(resc) == resc.active

\* FilterManager::rescan
Rescan(start, end, watch) ==
    /\ ~crashed
    /\ IF RescanRefused(rescan)
       THEN /\ crashed' = TRUE
            /\ out' = <<>>
            /\ result' = Returned("rescan", "Panic", 0, <<>>)
            /\ UNCHANGED rescan
            /\ HistoryUnchanged
       ELSE \E ord \in PeerOrders(peers) :
              LET reset == RescanReset(start, end, watch, tree)
                  g == GetCfilters(reset.current, CacheHeight(headers), tree,
                                   peers, ord, reset)
              IN  /\ rescan' = g.rescan
                  /\ out' = g.out
                  /\ result' = Returned("rescan", g.kind, 0, <<>>)
                  /\ crashed' = FALSE
                  /\ processed' = <<>>
                  /\ returned' = <<>>
                  /\ delivered' = {}
                  /\ rescan_result' = g.kind
    /\ UNCHANGED <<tree, clock, headers, store, peers, last_idle, inflight>>

\* FilterManager::peer_disconnected
PeerDisconnected(id) ==
    /\ ~crashed
    /\ peers' = peers \ {id}
    /\ out' = <<>>
    /\ result' = Returned("peer_disconnected", "Ok", 0, <<>>)
    /\ UNCHANGED <<tree, clock, headers, store, rescan, last_idle, inflight,
                   crashed>>
    /\ HistoryUnchanged

\* FilterManager::peer_negotiated
PeerNegotiated(id, height, has_services, outbound) ==
    /\ ~crashed
    /\ IF ~outbound \/ ~has_services
       THEN /\ out' = <<>>
            /\ UNCHANGED <<peers, inflight, crashed>>
       ELSE LET time == clock
                prs == peers \cup {id}
            IN  \E p \in Samples(prs) :
                  LET s == Sync(headers, tree, inflight, prs, p, time)
                  IN  /\ peers' = prs
                      /\ inflight' = s.inflight
                      /\ out' = s.out
                      /\ crashed' = s.panic
    /\ result' = Returned("peer_negotiated",
                          IF crashed' THEN "Panic" ELSE "Ok", 0, <<>>)
    /\ UNCHANGED <<tree, clock, headers, store, rescan, last_idle>>
    /\ HistoryUnchanged

\* A manager that takes every cfheaders for solicited, and one that looks the
\* request up without removing it.
SolicitedAny(infl, stop_hash) == TRUE
PeekInflight(infl, stop_hash) == infl
\* self.inflight.remove(&stop_hash): whether the entry was there, and the map
\* without it.
Solicited(infl, stop_hash) == stop_hash \in DOMAIN infl
TakeInflight(infl, stop_hash) == MapRemove(infl, stop_hash)

\* FilterManager::received_cfheaders, once the message passed validation:
\* chain the hashes, import them, tell the rescan, then Synced or sync again.
ImportCfheaders(msg, start_height, ord, p) ==
    LET new == ChainHeaders(msg.filter_hashes, msg.previous_filter_header)
        imp == ImportHeaders(headers, store, new)
        height == imp.height
        imported == <<FilterHeadersImportedEv(height, msg.stop_hash)>>
        hi == HeadersImported(start_height, height, tree, peers, ord,
                              rescan)
        s == Sync(imp.headers, tree, TakeInflight(inflight, msg.stop_hash),
                  peers, p, clock)
    IN  /\ headers' = imp.headers
        /\ store' = imp.store
        /\ IF hi.kind # "Ok"
           THEN \* headers_imported(..).unwrap()
                /\ crashed' = TRUE
                /\ out' = imported \o hi.out
                /\ rescan' = hi.rescan
                /\ inflight' = TakeInflight(inflight, msg.stop_hash)
                /\ result' = Returned("received_cfheaders", "Panic", 0, <<>>)
           ELSE IF height > tree
           THEN \* assert!(height <= tree.height())
                /\ crashed' = TRUE
                /\ out' = imported \o hi.out
                /\ rescan' = hi.rescan
                /\ inflight' = TakeInflight(inflight, msg.stop_hash)
                /\ result' = Returned("received_cfheaders", "Panic", 0, <<>>)
           ELSE IF height = tree
           THEN /\ crashed' = FALSE
                /\ out' = imported \o hi.out \o <<SyncedEv(height)>>
                /\ rescan' = hi.rescan
                /\ inflight' = TakeInflight(inflight, msg.stop_hash)
                /\ result' = Returned("received_cfheaders", "Ok", height, <<>>)
           ELSE /\ crashed' = s.panic
                /\ out' = imported \o hi.out \o s.out
                /\ rescan' = hi.rescan
                /\ inflight' = s.inflight
                /\ result' = Returned("received_cfheaders",
                                      IF s.panic THEN "Panic" ELSE "Ok",
                                      height, <<>>)

\* A verdict that lets an empty list of hashes pass.
CfheadersVerdictEmptyOk(msg, hs, treeHeight) ==
    LET start_height == CacheHeight(hs)
        stop_height == GetBlock(treeHeight, msg.stop_hash)
        count == Len(msg.filter_hashes)
    IN  IF msg.filter_type # 0 THEN "InvalidMessage"
        ELSE IF CacheTip(hs) # msg.previous_filter_header THEN "Stale"
        ELSE IF stop_height = NoneH THEN "InvalidMessage"
        ELSE IF start_height > stop_height THEN "InvalidMessage"
        ELSE IF count > MAX_MESSAGE_CFHEADERS THEN "InvalidMessage"
        ELSE IF stop_height - start_height # count THEN "InvalidMessage"
        ELSE "Valid"
\* A verdict that never compares the previous header with the cache's tip.
CfheadersVerdictNoStale(msg, hs, treeHeight) ==
    LET start_height == CacheHeight(hs)
        stop_height == GetBlock(treeHeight, msg.stop_hash)
        count == Len(msg.filter_hashes)
    IN  IF msg.filter_type # 0 THEN "InvalidMessage"
        ELSE IF stop_height = NoneH THEN "InvalidMessage"
        ELSE IF start_height > stop_height THEN "InvalidMessage"
        ELSE IF count > MAX_MESSAGE_CFHEADERS THEN "InvalidMessage"
        ELSE IF count = 0 THEN "InvalidMessage"
        ELSE IF stop_height - start_height # count THEN "InvalidMessage"
        ELSE "Valid"
\* A verdict that never compares the number of hashes with the height range.
CfheadersVerdictAnyCount(msg, hs, treeHeight) ==
    LET start_height == CacheHeight(hs)
        stop_height == GetBlock(treeHeight, msg.stop_hash)
        count == Len(msg.filter_hashes)
    IN  IF msg.filter_type # 0 THEN "InvalidMessage"
        ELSE IF CacheTip(hs) # msg.previous_filter_header THEN "Stale"
        ELSE IF stop_height = NoneH THEN "InvalidMessage"
        ELSE IF start_height > stop_height THEN "InvalidMessage"
        ELSE IF count > MAX_MESSAGE_CFHEADERS THEN "InvalidMessage"
        ELSE IF count = 0 THEN "InvalidMessage"
        ELSE "Valid"
\* The error received_cfheaders answers a solicited message with, or "Stale",
\* or "Valid".
CfheadersVerdict(msg, hs, treeHeight) ==
    LET start_height == CacheHeight(hs)
        stop_height == GetBlock(treeHeight, msg.stop_hash)
        count == Len(msg.filter_hashes)
    IN  IF msg.filter_type # 0 THEN "InvalidMessage"
        ELSE IF CacheTip(hs) # msg.previous_filter_header THEN "Stale"
        ELSE IF stop_height = NoneH THEN "InvalidMessage"
        ELSE IF start_height > stop_height THEN "InvalidMessage"
        ELSE IF count > MAX_MESSAGE_CFHEADERS THEN "InvalidMessage"
        ELSE IF count = 0 THEN "InvalidMessage"
        ELSE IF stop_height - start_height # count THEN "InvalidMessage"
        ELSE "Valid"

\* FilterManager::received_cfheaders
ReceivedCfheaders(from, msg) ==
    /\ ~crashed
    /\ IF ~Solicited(inflight, msg.stop_hash)
       THEN /\ out' = <<>>
            /\ result' = Returned("received_cfheaders", "Ignored", 0, <<>>)
            /\ UNCHANGED <<headers, store, rescan, inflight, crashed>>
       ELSE LET verdict == CfheadersVerdict(msg, headers, tree)
            IN  CASE verdict = "InvalidMessage" ->
                       /\ inflight' = TakeInflight(inflight, msg.stop_hash)
                       /\ out' = <<>>
                       /\ result' = Returned("received_cfheaders",
                                             "InvalidMessage", 0, <<>>)
                       /\ UNCHANGED <<headers, store, rescan, crashed>>
                  [] verdict = "Stale" ->
                       /\ inflight' = TakeInflight(inflight, msg.stop_hash)
                       /\ out' = <<>>
                       /\ result' = Returned("received_cfheaders", "Ok",
                                             CacheHeight(headers), <<>>)
                       /\ UNCHANGED <<headers, store, rescan, crashed>>
                  [] OTHER ->
                       \E ord \in PeerOrders(peers) :
                         \E p \in Samples(peers) :
                           ImportCfheaders(msg, CacheHeight(headers), ord, p)
    /\ UNCHANGED <<tree, clock, peers, last_idle>>
    /\ HistoryUnchanged

\* FilterManager::received_cfheaders for a solicited message that passes
\* validation, when the store's put fails: import_headers returns the error,
\* the closure of map() (event, headers_imported, Synced or sync) is not
\* run and Error::Filters is returned.
ReceivedCfheadersPutFails(from, msg) ==
    /\ ~crashed
    /\ Solicited(inflight, msg.stop_hash)
    /\ CfheadersVerdict(msg, headers, tree) = "Valid"
    /\ LET new == ChainHeaders(msg.filter_hashes, msg.previous_filter_header)
           imp == ImportHeadersPutFails(headers, store, new)
       IN  /\ headers' = imp.headers
           /\ store' = imp.store
    /\ inflight' = TakeInflight(inflight, msg.stop_hash)
    /\ out' = <<>>
    /\ result' = Returned("received_cfheaders", "Filters", 0, <<>>)
    /\ UNCHANGED <<tree, clock, peers, rescan, last_idle, crashed>>
    /\ HistoryUnchanged

\* The body of FilterManager::received_getcfheaders over the cache hs: what
\* is sent, the kind of the result, and whether the call aborted.
ServeGetcfheaders(hs, treeHeight, from, msg) ==
    LET start_height == msg.start_height
        stop_height == GetBlock(treeHeight, msg.stop_hash)
        none(kind) == [out |-> <<>>, kind |-> kind, panic |-> FALSE]
    IN  IF msg.filter_type # 0 THEN {none("InvalidMessage")}
        ELSE IF stop_height = NoneH THEN {none("Ignored")}
        ELSE {IF got.panic
              THEN [out |-> <<>>, kind |-> "Panic", panic |-> TRUE]
              ELSE IF got.headers # <<>>
              THEN [out |-> <<SendCFHeadersOut(
                                from, msg.stop_hash,
                                GetPrevHeader(hs, start_height),
                                [i \in 1..Len(got.headers) |->
                                   got.headers[i].hash])>>,
                    kind |-> "Ok", panic |-> FALSE]
              ELSE none("Ignored") :
              got \in GetHeaders(hs, start_height, stop_height)}

\* FilterManager::received_getcfheaders
ReceivedGetcfheaders(from, msg) ==
    /\ ~crashed
    /\ \E served \in ServeGetcfheaders(headers, tree, from, msg) :
         /\ out' = served.out
         /\ crashed' = served.panic
         /\ result' = Returned("received_getcfheaders", served.kind, 0, <<>>)
    /\ UNCHANGED <<tree, clock, headers, store, peers, rescan, last_idle,
                   inflight>>
    /\ HistoryUnchanged

\* A verdict that never compares the filter's header with the cache's.
CfilterVerdictUnchecked(msg, hs, treeHeight) ==
    LET height == GetBlock(treeHeight, msg.block_hash)
    IN  IF msg.filter_type # 0 THEN "Ignored"
        ELSE IF height = NoneH THEN "Ignored"
        ELSE IF ~HasHeader(hs, height) THEN "Ignored"
        ELSE "Valid"
\* The error received_cfilter answers with, or "Valid".
CfilterVerdict(msg, hs, treeHeight) ==
    LET height == GetBlock(treeHeight, msg.block_hash)
    IN  IF msg.filter_type # 0 THEN "Ignored"
        ELSE IF height = NoneH THEN "Ignored"
        ELSE IF ~HasHeader(hs, height) THEN "Ignored"
        ELSE IF BlockFilterHeader(msg.filter, GetPrevHeader(hs, height))
                # GetHeader(hs, height).header
        THEN "InvalidMessage"
        ELSE "Valid"

\* A test that takes every filter for a requested one while a rescan is
\* active.
AwaitedWhileActive(resc, height) == resc.active
\* self.rescan.active && self.rescan.requested.remove(&height): the filter
\* is one an active rescan waits for.
Awaited(resc, height) == resc.active /\ height \in resc.requested

\* The FilterProcessed events among outputs.
IsProcessed(o) == o.type = "FilterProcessed"
ProcessedEvents(o) == SelectSeq(o, IsProcessed)

\* FilterManager::received_cfilter
ReceivedCfilter(from, msg) ==
    /\ ~crashed
    /\ LET verdict == CfilterVerdict(msg, headers, tree)
           height == GetBlock(tree, msg.block_hash)
           block_hash == msg.block_hash
           event == <<FilterReceivedEv(from, msg.filter, height, block_hash)>>
       IN  IF verdict # "Valid"
           THEN /\ out' = <<>>
                /\ result' = Returned("received_cfilter", verdict, 0, <<>>)
                /\ UNCHANGED <<rescan, processed, returned, delivered>>
           ELSE IF Awaited(rescan, height)
           THEN LET stored ==
                      [rescan EXCEPT
                         !.requested = @ \ {height},
                         !.received = MapInsert(@, height,
                                        [filter |-> msg.filter,
                                         block_hash |-> block_hash])]
                    pr == Process(stored)
                IN  /\ rescan' = pr.rescan
                    /\ out' = event \o pr.out
                    /\ result' = Returned("received_cfilter", "Ok", 0,
                                          pr.matches)
                    /\ processed' = processed \o
                         [i \in 1..Len(ProcessedEvents(pr.out)) |->
                            ProcessedEvents(pr.out)[i].height]
                    /\ returned' = returned \o pr.matches
                    /\ delivered' = delivered \cup {height}
           ELSE /\ out' = event
                /\ result' = Returned("received_cfilter", "Ok", 0, <<>>)
                /\ delivered' = IF rescan_result # "None"
                                THEN delivered \cup {height}
                                ELSE delivered
                /\ UNCHANGED <<rescan, processed, returned>>
    /\ UNCHANGED <<tree, clock, headers, store, peers, last_idle, inflight,
                   crashed, rescan_result>>

\* The block-header tree imports a new block (outside the manager).
NewBlock ==
    /\ ~crashed
    /\ tree < MaxHeight
    /\ tree' = tree + 1
    /\ out' = <<>>
    /\ result' = Returned("new_block", "Ok", 0, <<>>)
    /\ UNCHANGED <<clock, headers, store, peers, rescan, last_idle, inflight,
                   crashed>>
    /\ HistoryUnchanged

(***************************************************************************)
(* The specification: the manager as FilterManager::new leaves it, over a  *)
(* cache loaded from a store that holds the genesis record alone.          *)
(***************************************************************************)
Init ==
    /\ tree \in 1..MaxHeight
    /\ clock = 0
    /\ headers = <<GenesisStoredHeader>>
    /\ store = <<GenesisStoredHeader>>
    /\ peers = {}
    /\ rescan = RescanDefault
    /\ last_idle = NoneH
    /\ inflight = <<>>
    /\ out = <<>>
    /\ result = Returned("new", "Ok", 0, <<>>)
    /\ crashed = FALSE
    /\ processed = <<>>
    /\ returned = <<>>
    /\ delivered = {}
    /\ rescan_result = "None"

Next ==
    \/ Initialize
    \/ \E dt \in {0, IDLE_TIMEOUT} : ReceivedTick(dt)
    \/ \E n \in 1..MaxHeight : Rollback(n)
    \/ \E script \in WatchScripts : Watch(script)
    \/ WatchTransactions(Txids)
    \/ \E txid \in Txids : UnwatchTransaction(txid)
    \/ \E start \in StartBounds, end \in EndBounds, watch \in WatchLists :
         Rescan(start, end, watch)
    \/ \E id \in PeerIds : PeerDisconnected(id)
    \/ \E id \in PeerIds, n \in Negotiations :
         PeerNegotiated(id, tree, n[1], n[2])
    \/ \E from \in PeerIds : \E msg \in CFHeadersInputs(headers, inflight) :
         ReceivedCfheaders(from, msg)
    \/ \E from \in PeerIds : \E msg \in GetCFHeadersMsgs :
         ReceivedGetcfheaders(from, msg)
    \/ \E from \in PeerIds : \E msg \in CFilterMsgs :
         ReceivedCfilter(from, msg)
    \/ NewBlock

Spec == Init /\ [][Next]_vars

(***************************************************************************)
(* SpecSync: filter-header sync.  Peers come and go, blocks arrive, the    *)
(* timer fires, peers send every kind of cfheaders (any hashes, stale,     *)
(* unsolicited, malformed) and getcfheaders, the chain is rolled back; a   *)
(* rescan may be running meanwhile.                                        *)
(***************************************************************************)
NextSync ==
    \/ Initialize
    \/ \E dt \in {0, IDLE_TIMEOUT} : ReceivedTick(dt)
    \/ \E n \in 1..MaxHeight : Rollback(n)
    \/ \E end \in {Unbounded, Included(MaxHeight)} :
         Rescan(Included(1), end, {3})
    \/ \E id \in PeerIds : PeerDisconnected(id)
    \/ \E id \in PeerIds, n \in Negotiations :
         PeerNegotiated(id, tree, n[1], n[2])
    \/ \E msg \in CFHeadersInputs(headers, inflight) :
         ReceivedCfheaders(1, msg)
    \/ NewBlock

SpecSync == Init /\ [][NextSync]_vars

(***************************************************************************)
(* SpecScan: the rescan pipeline.  One peer is negotiated and answers the  *)
(* header requests honestly, blocks arrive, the client rescans any range,  *)
(* filters (valid and forged) arrive in any order, the peer may leave.     *)
(***************************************************************************)
\* The filter of the block at height h: the genesis filter at 0, then
\* filters 2, 3, 1, 2, ..
TrueFilter(h) == (h % 3) + 1
\* Honest answers to the request for our tip: the hashes of the blocks'
\* filters from our height on, chained onto our tip (any number of them).
ScanCfheaders(hs, treeHeight) ==
    {CFHeadersMsg(0, BlockHashAt(treeHeight), CacheTip(hs),
                  [i \in 1..n |-> FilterHashOf(TrueFilter(CacheHeight(hs) + i))]) :
        n \in 1..MaxHeight}

NextScan ==
    \/ PeerNegotiated(1, tree, TRUE, TRUE)
    \/ \E msg \in ScanCfheaders(headers, tree) : ReceivedCfheaders(1, msg)
    \/ \E start \in StartBounds, end \in EndBounds, watch \in WatchLists :
         Rescan(start, end, watch)
    \/ \E msg \in CFilterMsgs : ReceivedCfilter(1, msg)
    \/ PeerDisconnected(1)
    \/ NewBlock

SpecScan == Init /\ [][NextScan]_vars

(***************************************************************************)
(* SpecMatch: matching.  As SpecScan with a fixed tree and peer, and the   *)
(* client changing its watch list and watched transactions at any time.    *)
(***************************************************************************)
NextMatch ==
    \/ PeerNegotiated(1, tree, TRUE, TRUE)
    \/ \E msg \in ScanCfheaders(headers, tree) : ReceivedCfheaders(1, msg)
    \/ \E start \in StartBounds, end \in EndBounds, watch \in WatchLists :
         Rescan(start, end, watch)
    \/ \E script \in WatchScripts : Watch(script)
    \/ WatchTransactions(Txids)
    \/ \E txid \in Txids : UnwatchTransaction(txid)
    \/ \E msg \in CFilterMsgs : ReceivedCfilter(1, msg)

SpecMatch == Init /\ [][NextMatch]_vars

(***************************************************************************)
(* Properties of filter-header sync, checked under SpecSync.               *)
(***************************************************************************)
\* C3: a cfheaders message that is accepted (FilterHeadersImported is
\* emitted) chained onto our tip: the cache grows by exactly the message's
\* hashes, in order, each with the header folded from previous_filter_header;
\* the new height is the stop hash's height and the new tip the fold's result.
C3_AcceptedCfheadersExtendCache ==
    [][(/\ result'.op = "received_cfheaders"
        /\ out' # <<>>
        /\ out'[1].type = "FilterHeadersImported")
       => \A msg \in CFHeadersInputs(headers, inflight) :
            ReceivedCfheaders(1, msg) =>
              LET n == Len(msg.filter_hashes)
                  old == Len(headers)
                  fold[i \in 0..n] ==
                      IF i = 0 THEN msg.previous_filter_header
                      ELSE FilterHeaderOf(msg.filter_hashes[i], fold[i - 1])
              IN  /\ msg.previous_filter_header = CacheTip(headers)
                  /\ Len(headers') = old + n
                  /\ SubSeq(headers', 1, old) = headers
                  /\ \A i \in 1..n :
                       /\ headers'[old + i].hash = msg.filter_hashes[i]
                       /\ headers'[old + i].header = fold[i]
                  /\ CacheHeight(headers') = GetBlock(tree, msg.stop_hash)
                  /\ CacheTip(headers') = fold[n]
                  /\ out'[1].height = CacheHeight(headers')
                  /\ out'[1].hash = msg.stop_hash]_vars
\* A message of two hashes was just imported.
C3_Witness ==
    /\ result.op = "received_cfheaders"
    /\ out # <<>>
    /\ out[1].type = "FilterHeadersImported"
    /\ Len(headers) = 3
    /\ out[1].height = 2

\* C4: in every reachable state the cache starts with the genesis record,
\* every record's header is the hash of its filter hash and the header below
\* it (the zero header below genesis), verify() succeeds, and height() is the
\* number of stored records minus one.
C4_CacheChainValid ==
    /\ headers[1] = GenesisStoredHeader
    /\ \A i \in 1..Len(headers) :
         headers[i].header =
           FilterHeaderOf(headers[i].hash,
                          IF i = 1 THEN ZeroHeader ELSE headers[i - 1].header)
    /\ Verify(headers)
    /\ CacheHeight(headers) = Len(store) - 1
    /\ store = headers
\* A chain of different filters was imported above genesis.
C4_Witness ==
    /\ result.op = "received_cfheaders"
    /\ result.kind = "Ok"
    /\ CacheHeight(headers) >= 2
    /\ headers[2].hash # headers[3].hash

\* C5: rollback(n) with n <= height removes exactly the top n headers from the
\* cache and the store: the height drops by n and what stays is the old chain
\* up to the new height; no other input makes the cache shorter.
C5_RollbackDropsTopN ==
    [][/\ \A n \in 1..MaxHeight :
            Rollback(n) =>
              /\ CacheHeight(headers') = CacheHeight(headers) - n
              /\ headers' = SubSeq(headers, 1, Len(headers) - n)
              /\ CacheTip(headers') = headers[Len(headers) - n].header
              /\ store' = SubSeq(store, 1, Len(store) - n)
              /\ Verify(headers')
       /\ Len(headers') < Len(headers) => result'.op = "rollback"]_vars
\* A cache of height 2 was just rolled back by one.
C5_Witness ==
    /\ result.op = "rollback"
    /\ CacheHeight(headers) = 1
    /\ tree = 2

\* C6: a cfheaders message whose stop hash matches no request in flight is
\* answered with Ignored; the cache, the store, the requests in flight and
\* the rescan stay as they were and nothing is output.  (No step that does
\* otherwise is the receipt of such a message.)
C6_UnsolicitedCfheadersIgnored ==
    [][(/\ result'.op = "received_cfheaders"
        /\ ~(/\ result'.kind = "Ignored"
             /\ out' = <<>>
             /\ headers' = headers
             /\ store' = store
             /\ inflight' = inflight
             /\ rescan' = rescan
             /\ peers' = peers))
       => \A msg \in CFHeadersInputs(headers, inflight) :
            ~(msg.stop_hash \notin DOMAIN inflight
              /\ ReceivedCfheaders(1, msg))]_vars
\* A message was ignored while another request was in flight.
C6_Witness ==
    /\ result.op = "received_cfheaders"
    /\ result.kind = "Ignored"
    /\ inflight # <<>>
    /\ CacheHeight(headers) >= 1

\* C7, as stated: whenever received_cfheaders returns Ignored or
\* InvalidMessage the cache, the requests in flight, the rescan and the peers
\* are what they were before the call.
C7_ErrorsLeaveStateIdentical ==
    [][(/\ result'.op = "received_cfheaders"
        /\ result'.kind \in {"Ignored", "InvalidMessage"})
       => /\ headers' = headers
          /\ store' = store
          /\ inflight' = inflight
          /\ rescan' = rescan
          /\ peers' = peers]_vars
\* C7, amended: whenever received_cfheaders returns Ignored or InvalidMessage
\* the cache, the store, the rescan and the peers are what they were before
\* the call and nothing is output; the requests in flight are unchanged on
\* Ignored, and on InvalidMessage they have lost exactly the request for the
\* message's stop hash.
C7_ErrorsKeepAllButTheRequest ==
    [][(/\ result'.op = "received_cfheaders"
        /\ result'.kind \in {"Ignored", "InvalidMessage"})
       => /\ headers' = headers
          /\ store' = store
          /\ rescan' = rescan
          /\ peers' = peers
          /\ out' = <<>>
          /\ \A k \in DOMAIN inflight' :
               k \in DOMAIN inflight /\ inflight'[k] = inflight[k]
          /\ IF result'.kind = "Ignored"
             THEN inflight' = inflight
             ELSE \A msg \in CFHeadersInputs(headers, inflight) :
                    \/ /\ msg.stop_hash \in DOMAIN inflight
                       /\ DOMAIN inflight' = DOMAIN inflight \ {msg.stop_hash}
                    \/ ~ReceivedCfheaders(1, msg)]_vars
\* A malformed reply to our request was just rejected during a rescan.
C7_Witness ==
    /\ result.op = "received_cfheaders"
    /\ result.kind = "InvalidMessage"
    /\ rescan.active
    /\ CacheHeight(headers) >= 1

(***************************************************************************)
(* Properties of the rescan pipeline, checked under SpecScan and SpecMatch. *)
(***************************************************************************)
\* C1: during a rescan over the heights a..b that rescan() accepted, once the
\* valid filters of all of a..b have been delivered, in whatever order, the
\* FilterProcessed events emitted are those of a, a+1, .., b, in this order.
C1_ProcessedIsTheRange ==
    (/\ rescan_result = "Ok"
     /\ rescan.start # NoneH
     /\ rescan.end # NoneH
     /\ rescan.start <= rescan.end
     /\ (rescan.start..rescan.end) \subseteq delivered)
    => processed = [i \in 1..(rescan.end - rescan.start + 1) |->
                      rescan.start + i - 1]

\* C2: a cfilter for a height the cache knows whose filter header differs from
\* the committed one is answered with InvalidMessage: no event, no block, the
\* rescan (received and requested included) as it was (no step that does
\* otherwise is the receipt of such a filter); and after every step each
\* filter waiting in received hashes to the header committed at its height.
C2_ForgedFilterRejected ==
    [][/\ (/\ result'.op = "received_cfilter"
           /\ ~(/\ result'.kind = "InvalidMessage"
                /\ result'.blocks = <<>>
                /\ out' = <<>>
                /\ rescan' = rescan
                /\ processed' = processed
                /\ returned' = returned))
          => \A msg \in CFilterMsgs :
               LET h == GetBlock(tree, msg.block_hash)
               IN  ~(/\ msg.filter_type = 0
                     /\ h # NoneH
                     /\ h <= CacheHeight(headers)
                     /\ FilterHeaderOf(FilterHashOf(msg.filter),
                                       IF h = 0 THEN ZeroHeader
                                       ELSE headers[h].header)
                          # headers[h + 1].header
                     /\ ReceivedCfilter(1, msg))
       /\ \A h \in DOMAIN rescan'.received :
            /\ h <= CacheHeight(headers')
            /\ FilterHeaderOf(FilterHashOf(rescan'.received[h].filter),
                              IF h = 0 THEN ZeroHeader ELSE headers'[h].header)
                 = headers'[h + 1].header]_vars
\* A forged filter was just rejected while a valid one waits out of order.
C2_Witness ==
    /\ result.op = "received_cfilter"
    /\ result.kind = "InvalidMessage"
    /\ rescan.active
    /\ rescan.requested # {}
    /\ rescan.received # <<>>

\* C8: the FilterProcessed event of a filter says matched exactly when the
\* filter holds a script of the watch list or all the output scripts of a
\* watched transaction, and the handler returns the blocks of the matched
\* events; with an empty watch list and no watched transaction nothing is
\* matched and no block is returned.
C8_MatchedIffWatchOrTransaction ==
    [][result'.op = "received_cfilter" =>
         LET events == SelectSeq(out', LAMBDA o : o.type = "FilterProcessed")
             filterAt(h) == IF h \in DOMAIN rescan.received
                            THEN rescan.received[h].filter
                            ELSE out'[1].aux
             hit(h) ==
                 \/ \E s \in rescan.watch : s \in FilterContent(filterAt(h))
                 \/ \E t \in DOMAIN rescan.transactions :
                      rescan.transactions[t] \subseteq FilterContent(filterAt(h))
             hits == SelectSeq(events, LAMBDA o : o.matched)
         IN  /\ \A i \in 1..Len(events) :
                  events[i].matched <=> hit(events[i].height)
             /\ result'.blocks = [i \in 1..Len(hits) |-> hits[i].hash]
             /\ (rescan.watch = {} /\ DOMAIN rescan.transactions = {})
                  => (hits = <<>> /\ result'.blocks = <<>>)]_vars
\* A filter matched through a watched transaction alone, and another one was
\* processed without a match.
C8_Witness ==
    /\ result.op = "received_cfilter"
    /\ rescan.watch = {}
    /\ DOMAIN rescan.transactions # {}
    /\ \E i \in 1..Len(out) : out[i].type = "FilterProcessed" /\ out[i].matched
    /\ \E i \in 1..Len(out) : out[i].type = "FilterProcessed" /\ ~out[i].matched

BatchHeights ==
    {MAX_MESSAGE_CFILTERS - 1, MAX_MESSAGE_CFILTERS, MAX_MESSAGE_CFILTERS + 1}
\* The stored headers of the blocks lo..hi above the header prev, built by
\* halves.
RECURSIVE BatchChainFrom(_, _, _)
BatchChainFrom(lo, hi, prev) ==
    IF lo > hi THEN <<>>
    ELSE IF lo = hi
    THEN <<[hash |-> FilterHashOf(TrueFilter(lo)),
            header |-> BlockFilterHeader(TrueFilter(lo), prev)]>>
    ELSE LET mid == (lo + hi) \div 2
             left == BatchChainFrom(lo, mid, prev)
         IN  left \o BatchChainFrom(mid + 1, hi, left[Len(left)].header)
\* The stored headers of the blocks 0..treeHeight.
BatchChain(treeHeight) ==
    <<GenesisStoredHeader>>
    \o BatchChainFrom(1, treeHeight, GenesisStoredHeader.header)

InitBatch ==
    /\ tree \in BatchHeights
    /\ clock = 0
    /\ headers = BatchChain(tree)
    /\ store = headers
    /\ peers = {}
    /\ rescan = RescanDefault
    /\ last_idle = NoneH
    /\ inflight = <<>>
    /\ out = <<>>
    /\ result = Returned("new", "Ok", 0, <<>>)
    /\ crashed = FALSE
    /\ processed = <<>>
    /\ returned = <<>>
    /\ delivered = {}
    /\ rescan_result = "None"

NextBatch ==
    \/ PeerNegotiated(1, tree, TRUE, TRUE)
    \/ \E start \in StartBounds, end \in EndBounds, watch \in WatchLists :
         Rescan(start, end, watch)
    \/ \E msg \in CFilterMsgs : ReceivedCfilter(1, msg)

SpecBatch == InitBatch /\ [][NextBatch]_vars

\* C10: when rescan(Included(k), Unbounded, watch) with k <= B has just run
\* on a filter chain caught up to the block height B with one peer, it
\* returned Ok and a get_cfilters request from k to the hash of block B is
\* among its outputs.
C10_RescanRequestsUpToTip ==
    (/\ result.op = "rescan"
     /\ result.kind # "Panic"
     /\ rescan.start # NoneH
     /\ rescan.end = NoneH
     /\ rescan.start <= tree
     /\ CacheHeight(headers) = tree
     /\ Cardinality(peers) = 1)
    => /\ result.kind = "Ok"
       /\ \E i \in 1..Len(out) :
            /\ out[i].type = "get_cfilters"
            /\ out[i].height = rescan.start
            /\ out[i].hash = BlockHashAt(tree)

\* The heights the i-th output covers when it is a get_cfilters request:
\* from its start height through the height of its stop hash.
RequestCover(i) ==
    IF out[i].type = "get_cfilters"
    THEN out[i].height..GetBlock(tree, out[i].hash)
    ELSE {}

\* C11: when rescan() has just asked a non-empty peer table for a non-empty
\* range of filters and returned Ok, the get_cfilters requests it emitted
\* cover exactly the heights added to rescan.requested, no height is covered
\* by two requests, and no request covers more than MAX_MESSAGE_CFILTERS
\* heights.
C11_RequestsCoverRequested ==
    (/\ result.op = "rescan"
     /\ result.kind = "Ok"
     /\ peers # {}
     /\ rescan.requested # {})
    => /\ UNION {RequestCover(i) : i \in 1..Len(out)} = rescan.requested
       /\ \A i, j \in 1..Len(out) :
            i # j => RequestCover(i) \cap RequestCover(j) = {}
       /\ \A i \in 1..Len(out) :
            Cardinality(RequestCover(i)) <= MAX_MESSAGE_CFILTERS

\* C12: during a rescan of start..end that rescan() accepted, with
\* start <= end <= the cache's height and a connected peer, once the valid
\* filters of all of start..end have been delivered and no requested filter
\* is outstanding, the rescan has completed: rescan.active is false (it
\* turns false only together with the RescanCompleted event).
C12_BoundedRescanCompletes ==
    (/\ rescan_result = "Ok"
     /\ ~crashed
     /\ peers # {}
     /\ rescan.start # NoneH
     /\ rescan.end # NoneH
     /\ rescan.start <= rescan.end
     /\ rescan.end <= CacheHeight(headers)
     /\ (rescan.start..rescan.end) \subseteq delivered
     /\ rescan.requested = {})
    => ~rescan.active

\* C13: a step that emits RescanCompleted{height = h} leaves h the last
\* height processed by the rescan: the FilterProcessed events of the rescan
\* end with that of h and, when the rescan has a start, are those of
\* start, start + 1, .., h.
C13_CompletedAtLastProcessed ==
    [][\A i \in 1..Len(out') :
         out'[i].type = "RescanCompleted"
         => LET h == out'[i].height
            IN  /\ processed' # <<>>
                /\ processed'[Len(processed')] = h
                /\ rescan'.start # NoneH
                   => processed' = [k \in 1..(h - rescan'.start + 1) |->
                                      rescan'.start + k - 1]]_vars

\* C14: in every state of a rescan with bounds start <= end, rescan.current
\* lies between them: start <= current <= end.
C14_CurrentWithinBounds ==
    (/\ rescan.start # NoneH
     /\ rescan.end # NoneH
     /\ rescan.start <= rescan.end)
    => /\ rescan.start <= rescan.current
       /\ rescan.current <= rescan.end

(***************************************************************************)
(* SpecPickup: a rescan and an honest, responsive peer.  The client        *)
(* rescans when no rescan is active, peer 1 is negotiated and may leave,   *)
(* blocks arrive, and the peer answers every request it was sent: a        *)
(* getcfheaders that is inflight with the headers up to its stop hash, a   *)
(* requested filter with the block's filter.  The peer's negotiation and   *)
(* answers are weakly fair: a peer that stays connected answers in the     *)
(* end.                                                                    *)
(***************************************************************************)
\* The honest answer to the inflight request with stop hash sh.
PickupCfheaders(hs, treeHeight, sh) ==
    CFHeadersMsg(0, sh, CacheTip(hs),
                 [i \in 1..(GetBlock(treeHeight, sh) - CacheHeight(hs)) |->
                    FilterHashOf(TrueFilter(CacheHeight(hs) + i))])
\* The filter of the block at height h, as the peer sends it.
PickupCfilter(h) ==
    [filter_type |-> 0, block_hash |-> BlockHashAt(h), filter |-> TrueFilter(h)]

ClientRescan ==
    /\ ~rescan.active
    /\ \E start \in StartBounds, end \in EndBounds, watch \in WatchLists :
         Rescan(start, end, watch)
AnswerCfheaders ==
    \E sh \in DOMAIN inflight :
       /\ peers # {}
       /\ GetBlock(tree, sh) > CacheHeight(headers)
       /\ ReceivedCfheaders(1, PickupCfheaders(headers, tree, sh))
AnswerCfilter ==
    \E h \in rescan.requested :
       /\ peers # {}
       /\ ReceivedCfilter(1, PickupCfilter(h))

NextPickup ==
    \/ ClientRescan
    \/ PeerNegotiated(1, tree, TRUE, TRUE)
    \/ AnswerCfheaders
    \/ AnswerCfilter
    \/ PeerDisconnected(1)
    \/ NewBlock

FairPickup ==
    /\ WF_vars(PeerNegotiated(1, tree, TRUE, TRUE))
    /\ WF_vars(AnswerCfheaders)
    /\ WF_vars(AnswerCfilter)

SpecPickup == Init /\ [][NextPickup]_vars /\ FairPickup

\* C15: a rescan started with an empty peer table over heights the cache
\* already covers (rescan() answered NotConnected) is picked up once a peer
\* is negotiated: from then on, unless the peer leaves, eventually a filter
\* of the rescan is processed.
C15_RescanPicksUpOnConnect ==
    (rescan_result = "NotConnected" /\ rescan.active /\ peers # {})
    ~> (processed # <<>> \/ peers = {})

\* C16: rescan() called while a rescan is active is refused with a fatal
\* outcome, leaves the rescan (range, current, watch list, transactions,
\* requested, received) as it was and emits no get_cfilters (no step that
\* does otherwise is a call of rescan on an active rescan).
C16_RescanWhileActiveRefused ==
    [][(/\ rescan.active
        /\ ~(/\ crashed'
             /\ result'.kind = "Panic"
             /\ rescan' = rescan
             /\ \A i \in 1..Len(out') : out'[i].type # "get_cfilters"))
       => \A start \in StartBounds, end \in EndBounds, watch \in WatchLists :
            ~Rescan(start, end, watch)]_vars
\* rescan() was refused while filters of the active rescan were outstanding.
C16_Witness ==
    /\ result.op = "rescan"
    /\ result.kind = "Panic"
    /\ rescan.active
    /\ rescan.requested # {}

(***************************************************************************)
(* Properties of the peer table, checked under SpecSync.                   *)
(***************************************************************************)
\* C17: every get_cfheaders and get_cfilters a step emits is addressed to a
\* peer that is in the peer table when the step ends; a peer enters the table
\* only by peer_negotiated and is out of it after peer_disconnected; and
\* peer_negotiated for an inbound peer or one without the compact-filter
\* service changes no state and emits nothing.
C17_RequestsGoToTablePeers ==
    [][/\ \A i \in 1..Len(out') :
            out'[i].type \in {"get_cfheaders", "get_cfilters"}
            => out'[i].peer \in peers'
       /\ peers' \ peers # {} => result'.op = "peer_negotiated"
       /\ \A id \in PeerIds :
            PeerDisconnected(id) => id \notin peers'
       /\ \A id \in PeerIds, n \in Negotiations :
            (~(n[1] /\ n[2]) /\ PeerNegotiated(id, tree, n[1], n[2]))
            => /\ out' = <<>>
               /\ UNCHANGED <<tree, clock, headers, store, peers, rescan,
                              last_idle, inflight, crashed>>]_vars
\* A request went to the one peer in the table while the other had left
\* it or never entered.
C17_Witness ==
    /\ Cardinality(peers) = 1
    /\ \E i \in 1..Len(out) :
         /\ out[i].type \in {"get_cfheaders", "get_cfilters"}
         /\ out[i].peer \in peers
    /\ result.op # "peer_negotiated"

(***************************************************************************)
(* SpecIdle: header sync driven by the idle timer.  Peers are negotiated   *)
(* and leave, blocks arrive, time passes, and a peer answers a            *)
(* getcfheaders honestly: either the request the last step emitted, or one *)
(* that is inflight.  A request is lost when another step comes first.     *)
(***************************************************************************)
\* The peer asked by the last step answers its getcfheaders.
AnswerRequest ==
    \E i \in 1..Len(out) :
       /\ out[i].type = "get_cfheaders"
       /\ out[i].peer \in peers
       /\ ReceivedCfheaders(out[i].peer,
                            PickupCfheaders(headers, tree, out[i].hash))

NextIdle ==
    \/ \E id \in PeerIds : PeerNegotiated(id, tree, TRUE, TRUE)
    \/ \E id \in PeerIds : PeerDisconnected(id)
    \/ \E dt \in {0, IDLE_TIMEOUT} : ReceivedTick(dt)
    \/ AnswerRequest
    \/ AnswerCfheaders
    \/ NewBlock

SpecIdle == Init /\ [][NextIdle]_vars

\* C19: when an idle tick has (re-)issued a getcfheaders because the cache
\* is behind the tree, the asked peer's valid answer to that request is
\* accepted and imported: the cache reaches the height of the stop hash.
C19_ReissuedRequestAnswered ==
    [][\A i \in 1..Len(out) :
         (/\ result.op = "received_tick"
          /\ out[i].type = "get_cfheaders"
          /\ out[i].peer \in peers
          /\ ReceivedCfheaders(out[i].peer,
                               PickupCfheaders(headers, tree, out[i].hash)))
         => /\ result'.kind = "Ok"
            /\ CacheHeight(headers') = GetBlock(tree, out[i].hash)]_vars

\* C20: the filter-header chain is never higher than the block-header chain
\* (so neither the assertion of received_cfheaders nor the fatal branch of
\* sync is reached), and after a step that imported cfheaders the cache's
\* height is the imported height and the height of the message's stop hash.
C20_FilterChainWithinTree ==
    /\ CacheHeight(headers) <= tree
    /\ \A i \in 1..Len(out) :
         out[i].type = "FilterHeadersImported"
         => /\ out[i].height = CacheHeight(headers)
            /\ GetBlock(tree, out[i].hash) = CacheHeight(headers)
\* Cfheaders were imported up to the tip of a tree two blocks high.
C20_Witness ==
    /\ result.op = "received_cfheaders"
    /\ result.kind = "Ok"
    /\ \E i \in 1..Len(out) : out[i].type = "FilterHeadersImported"
    /\ CacheHeight(headers) = tree
    /\ tree >= 2

(***************************************************************************)
(* SpecTall: header sync of a chain about MAX_MESSAGE_CFHEADERS blocks     *)
(* high (or one block high), from a cache at genesis.  Peers are           *)
(* negotiated and leave, time passes, a block may arrive on the short      *)
(* chain, and peer 1 answers an inflight request either honestly (when it  *)
(* is a few headers long) or with a message of a wrong filter type.        *)
(***************************************************************************)
TallHeights ==
    {1, MAX_MESSAGE_CFHEADERS, MAX_MESSAGE_CFHEADERS + 1,
     MAX_MESSAGE_CFHEADERS + 2}

InitTall ==
    /\ tree \in TallHeights
    /\ clock = 0
    /\ headers = <<GenesisStoredHeader>>
    /\ store = headers
    /\ peers = {}
    /\ rescan = RescanDefault
    /\ last_idle = NoneH
    /\ inflight = <<>>
    /\ out = <<>>
    /\ result = Returned("new", "Ok", 0, <<>>)
    /\ crashed = FALSE
    /\ processed = <<>>
    /\ returned = <<>>
    /\ delivered = {}
    /\ rescan_result = "None"

\* The honest answer to an inflight request of at most MaxHeight headers.
TallAnswer ==
    \E sh \in DOMAIN inflight :
       /\ GetBlock(tree, sh) - CacheHeight(headers) \in 1..MaxHeight
       /\ ReceivedCfheaders(1, PickupCfheaders(headers, tree, sh))
\* An answer of a wrong filter type to an inflight request.
TallRefuse ==
    \E sh \in DOMAIN inflight :
       ReceivedCfheaders(1, CFHeadersMsg(1, sh, CacheTip(headers),
                                         <<FilterHashOf(1)>>))

NextTall ==
    \/ \E id \in PeerIds : PeerNegotiated(id, tree, TRUE, TRUE)
    \/ \E id \in PeerIds : PeerDisconnected(id)
    \/ \E dt \in {0, IDLE_TIMEOUT} : ReceivedTick(dt)
    \/ TallAnswer
    \/ TallRefuse
    \/ NewBlock

SpecTall == InitTall /\ [][NextTall]_vars

\* C21: a step in which sync runs (an eligible peer_negotiated, a due tick,
\* or an import that leaves the cache below the tree) with the cache at F,
\* the tree at B > F, a peer in the table and the stop hash not inflight
\* emits, of requests and Syncing events, exactly get_cfheaders(p, F + 1,
\* stop) followed by Syncing(p, F + 1, stop) for one peer p of the table,
\* where stop is the tip's hash if B - F <= MAX_MESSAGE_CFHEADERS and the
\* hash of block F + MAX_MESSAGE_CFHEADERS otherwise; with F = B it emits
\* none of them and leaves the inflight table as it was.
C21_SyncRequestsNextHeaders ==
    [][LET F == CacheHeight(headers')
           B == tree
           stop == IF B - F <= MAX_MESSAGE_CFHEADERS
                   THEN BlockHashAt(B)
                   ELSE BlockHashAt(F + MAX_MESSAGE_CFHEADERS)
           IsSync(e) == e.type \in {"get_cfheaders", "Syncing"}
           sent == SelectSeq(out', IsSync)
           negotiated ==
               \E id \in PeerIds : PeerNegotiated(id, tree, TRUE, TRUE)
           ticked ==
               /\ result'.op = "received_tick"
               /\ \E i \in 1..Len(out') : out'[i].type = "set_timeout"
           imported ==
               /\ result'.op = "received_cfheaders"
               /\ ~crashed'
               /\ out' # <<>>
               /\ out'[1].type = "FilterHeadersImported"
               /\ F < B
           before == IF imported THEN MapRemove(inflight, out'[1].hash)
                     ELSE inflight
       IN  (negotiated \/ ticked \/ imported)
           => /\ (F < B /\ peers' # {} /\ stop \notin DOMAIN before)
                 => \E p \in peers' :
                      sent = <<GetCFHeadersOut(p, F + 1, stop),
                               SyncingEv(p, F + 1, stop)>>
              /\ F = B
                 => /\ sent = <<>>
                    /\ negotiated => inflight' = inflight]_vars
\* A capped request: the tree is more than MAX_MESSAGE_CFHEADERS above the
\* cache and the request stops at block MAX_MESSAGE_CFHEADERS.
C21_Witness ==
    /\ tree > MAX_MESSAGE_CFHEADERS
    /\ CacheHeight(headers) = 0
    /\ Len(out) >= 2
    /\ out[1] = GetCFHeadersOut(out[1].peer, 1,
                                BlockHashAt(MAX_MESSAGE_CFHEADERS))
    /\ out[2].type = "Syncing"

\* C22: a step in which sync runs while the stop hash it would request is
\* already inflight emits no get_cfheaders, no Syncing and no
\* RequestCanceled; after peer_negotiated and after an import the inflight
\* table, dispatch times included, is what it was when sync ran (after a due
\* tick idle() itself clears the table).
C22_NoDuplicateHeaderRequest ==
    [][LET F == CacheHeight(headers')
           B == tree
           stop == IF B - F <= MAX_MESSAGE_CFHEADERS
                   THEN BlockHashAt(B)
                   ELSE BlockHashAt(F + MAX_MESSAGE_CFHEADERS)
           IsSync(e) ==
               e.type \in {"get_cfheaders", "Syncing", "RequestCanceled"}
           negotiated ==
               \E id \in PeerIds : PeerNegotiated(id, tree, TRUE, TRUE)
           ticked ==
               /\ result'.op = "received_tick"
               /\ \E i \in 1..Len(out') : out'[i].type = "set_timeout"
           imported ==
               /\ result'.op = "received_cfheaders"
               /\ ~crashed'
               /\ out' # <<>>
               /\ out'[1].type = "FilterHeadersImported"
           before == IF imported THEN MapRemove(inflight, out'[1].hash)
                     ELSE inflight
       IN  ((negotiated \/ ticked \/ imported)
            /\ F < B /\ stop \in DOMAIN before)
           => /\ SelectSeq(out', IsSync) = <<>>
              /\ (negotiated \/ imported) => inflight' = before]_vars
\* An import left the cache below the tree while the request for the tip
\* was inflight: sync ran and sent nothing.
C22_Witness ==
    /\ result.op = "received_cfheaders"
    /\ result.kind = "Ok"
    /\ out # <<>>
    /\ out[1].type = "FilterHeadersImported"
    /\ CacheHeight(headers) < tree
    /\ BlockHashAt(tree) \in DOMAIN inflight
    /\ \A i \in 1..Len(out) : out[i].type # "get_cfheaders"

\* C23: a step in which sync runs with the cache below the tree, the stop
\* hash not inflight and an empty peer table emits, of requests, Syncing and
\* RequestCanceled events, exactly one RequestCanceled, and adds nothing to
\* the inflight table.
C23_NoPeersCancelsRequest ==
    [][LET F == CacheHeight(headers')
           B == tree
           stop == IF B - F <= MAX_MESSAGE_CFHEADERS
                   THEN BlockHashAt(B)
                   ELSE BlockHashAt(F + MAX_MESSAGE_CFHEADERS)
           IsSync(e) ==
               e.type \in {"get_cfheaders", "Syncing", "RequestCanceled"}
           ticked ==
               /\ result'.op = "received_tick"
               /\ \E i \in 1..Len(out') : out'[i].type = "set_timeout"
           imported ==
               /\ result'.op = "received_cfheaders"
               /\ ~crashed'
               /\ out' # <<>>
               /\ out'[1].type = "FilterHeadersImported"
           before == IF imported THEN MapRemove(inflight, out'[1].hash)
                     ELSE inflight
       IN  ((ticked \/ imported)
            /\ F < B /\ peers' = {} /\ stop \notin DOMAIN before)
           => /\ SelectSeq(out', IsSync) = <<RequestCanceledEv>>
              /\ DOMAIN inflight' \subseteq DOMAIN before]_vars
\* An import with no peer left in the table: the further request was
\* canceled.
C23_Witness ==
    /\ result.op = "received_cfheaders"
    /\ peers = {}
    /\ Len(out) = 2
    /\ out[1].type = "FilterHeadersImported"
    /\ out[2] = RequestCanceledEv
    /\ inflight = <<>>

\* C24: after every step, each get_cfheaders request the step emitted has its
\* stop hash in the inflight table.
C24_EmittedRequestIsInflight ==
    \A i \in 1..Len(out) :
       out[i].type = "get_cfheaders" => out[i].hash \in DOMAIN inflight

\* C25: the receipt of a solicited cfheaders of filter type 0 whose
\* previous_filter_header is not the cache's tip returns Ok with the cache's
\* unchanged height, outputs nothing, leaves the cache, the store, the
\* rescan and the peers as they were, and removes from the inflight table
\* the entry of the message's stop hash and nothing else.
C25_StaleCfheadersOnlyClearRequest ==
    [][result'.op = "received_cfheaders"
       => \A msg \in CFHeadersInputs(headers, inflight) :
            (/\ msg.stop_hash \in DOMAIN inflight
             /\ msg.filter_type = 0
             /\ msg.previous_filter_header # CacheTip(headers)
             /\ ReceivedCfheaders(1, msg))
            => /\ result' = Returned("received_cfheaders", "Ok",
                                     CacheHeight(headers), <<>>)
               /\ out' = <<>>
               /\ headers' = headers
               /\ store' = store
               /\ rescan' = rescan
               /\ peers' = peers
               /\ inflight' = MapRemove(inflight, msg.stop_hash)]_vars
\* A stale message was just answered with the height of a cache that holds
\* headers, while a rescan was active.
C25_Witness ==
    /\ result.op = "received_cfheaders"
    /\ result.kind = "Ok"
    /\ out = <<>>
    /\ result.value = CacheHeight(headers)
    /\ CacheHeight(headers) >= 1
    /\ rescan.active

\* C26: the receipt of a solicited cfheaders of filter type 0 whose
\* previous_filter_header is the cache's tip imports its hashes (the cache
\* grows by their number and FilterHeadersImported is emitted) if its stop
\* hash is a block at a height stop >= the cache's height F and the number
\* of hashes is between 1 and MAX_MESSAGE_CFHEADERS and equals stop - F;
\* otherwise it returns InvalidMessage and leaves the cache and the store
\* as they were.
C26_CfheadersImportedIffWellFormed ==
    [][result'.op = "received_cfheaders"
       => \A msg \in CFHeadersInputs(headers, inflight) :
            (/\ msg.stop_hash \in DOMAIN inflight
             /\ msg.filter_type = 0
             /\ msg.previous_filter_header = CacheTip(headers))
            => LET F == CacheHeight(headers)
                   stop == GetBlock(tree, msg.stop_hash)
                   count == Len(msg.filter_hashes)
                   asClaimed ==
                     IF /\ stop # NoneH
                        /\ stop >= F
                        /\ 1 <= count
                        /\ count <= MAX_MESSAGE_CFHEADERS
                        /\ count = stop - F
                     THEN /\ CacheHeight(headers') = F + count
                          /\ SubSeq(headers', 1, Len(headers)) = headers
                          /\ out' # <<>>
                          /\ out'[1].type = "FilterHeadersImported"
                     ELSE /\ result'.kind = "InvalidMessage"
                          /\ headers' = headers
                          /\ store' = store
               IN  asClaimed \/ ~ReceivedCfheaders(1, msg)]_vars
\* A message was rejected for its count while the cache held headers, and
\* another state in which two headers were imported at once.
C26_Witness ==
    /\ result.op = "received_cfheaders"
    /\ result.kind = "Ok"
    /\ out # <<>>
    /\ out[1].type = "FilterHeadersImported"
    /\ CacheHeight(headers) = 2
    /\ store = headers

\* The outputs sync may leave after an import to height h: nothing (the
\* request is already inflight), a cancelled request (no peers), or the
\* request for the headers from h + 1 on with its Syncing event.
SyncOutputs(o, h) ==
    \/ o = <<>>
    \/ o = <<RequestCanceledEv>>
    \/ /\ Len(o) = 2
       /\ o[1].type = "get_cfheaders"
       /\ o[1].height = h + 1
       /\ o[2] = SyncingEv(o[1].peer, o[1].height, o[1].hash)
\* C27: an import of cfheaders to the new height h emits, in this order,
\* FilterHeadersImported(h, stop hash), the get_cfilters requests of the
\* active rescan (none when no rescan is active), and then Synced(h) when h
\* is the tree's height, or else the outputs of a sync from h + 1 and no
\* Synced; no input emits Synced with a height other than the height of
\* both the cache and the tree.
C27_ImportOutputOrder ==
    [][/\ (result'.op = "received_cfheaders" /\ headers' # headers)
          => LET h == CacheHeight(headers')
                 o == out'
                 filters == {i \in 2..Len(o) : o[i].type = "get_cfilters"}
                 k == Cardinality(filters)
             IN  /\ o # <<>>
                 /\ o[1] = FilterHeadersImportedEv(h, BlockHashAt(h))
                 /\ filters = 2..(k + 1)
                 /\ ~rescan.active => k = 0
                 /\ IF h = tree
                    THEN SubSeq(o, k + 2, Len(o)) = <<SyncedEv(h)>>
                    ELSE SyncOutputs(SubSeq(o, k + 2, Len(o)), h)
       /\ out' # out
          => \A i \in 1..Len(out') :
               out'[i].type = "Synced"
               => /\ out'[i].height = CacheHeight(headers')
                  /\ out'[i].height = tree']_vars

(***************************************************************************)
(* SpecServe: serving filter headers.  A peer is negotiated and answers    *)
(* our header requests honestly, blocks arrive, the cache is rolled back,  *)
(* and peers ask us for any range of filter headers: from any height up to *)
(* any block, the genesis and an unknown block included.                   *)
(***************************************************************************)
ServeMsgs ==
    GetCFHeadersMsgs
    \cup [filter_type : {0}, start_height : {0, 1, MaxHeight + 1},
          stop_hash : {BlockHashAt(0)}]
NextServe ==
    \/ PeerNegotiated(1, tree, TRUE, TRUE)
    \/ AnswerCfheaders
    \/ NewBlock
    \/ \E n \in 1..MaxHeight : Rollback(n)
    \/ \E from \in PeerIds, msg \in ServeMsgs : ReceivedGetcfheaders(from, msg)

SpecServe == Init /\ [][NextServe]_vars

\* C29: a getcfheaders of filter type 0 whose start_height is above the
\* height of its known stop block is answered with Ignored: nothing is
\* sent and the call does not abort.
C29_ReversedRangeIgnored ==
    [][result'.op = "received_getcfheaders"
       => \A from \in PeerIds, msg \in ServeMsgs :
            (/\ msg.filter_type = 0
             /\ GetBlock(tree, msg.stop_hash) # NoneH
             /\ msg.start_height > GetBlock(tree, msg.stop_hash)
             /\ ReceivedGetcfheaders(from, msg))
            => /\ result'.kind = "Ignored"
               /\ out' = <<>>
               /\ ~crashed']_vars

\* The heights of [s, t) whose filter header is in the cache.
CachedInRange(hs, s, t) == {h \in s..(t - 1) : HasHeader(hs, h)}
\* C28: a getcfheaders of filter type 0 from start_height s up to a known
\* stop block at height t, with a cached filter header in [s, t), is
\* answered by one cfheaders to the sender with that stop hash, the header
\* of height s - 1 as previous_filter_header (the zero header when s = 0)
\* and the cached hashes of the heights of [s, t), ascending; with an
\* unknown stop block or no cached header in [s, t) it returns Ignored
\* and sends nothing; in no case is the manager's state changed.
C28_ServesCachedRange ==
    [][result'.op = "received_getcfheaders"
       => \A from \in PeerIds, msg \in ServeMsgs :
            (msg.filter_type = 0 /\ ReceivedGetcfheaders(from, msg))
            => LET s == msg.start_height
                   t == GetBlock(tree, msg.stop_hash)
                   present == IF t = NoneH THEN {}
                              ELSE CachedInRange(headers, s, t)
               IN  /\ UNCHANGED <<headers, store, peers, rescan, last_idle,
                                  inflight, crashed>>
                   /\ IF present # {}
                      THEN /\ result'.kind = "Ok"
                           /\ out' = <<SendCFHeadersOut(
                                         from, msg.stop_hash,
                                         IF s = 0 THEN ZeroHeader
                                         ELSE GetHeader(headers, s - 1).header,
                                         [i \in 1..Cardinality(present) |->
                                            GetHeader(headers, s + i - 1).hash])>>
                      ELSE /\ result'.kind = "Ignored"
                           /\ out' = <<>>]_vars

\* C30: a cfilter that matches its committed header, received while no
\* rescan is active or for a height that is not in rescan.requested, emits
\* the FilterReceived event and nothing else (no FilterProcessed), returns
\* an empty list of blocks and leaves the rescan state as it was.
C30_UnrequestedFilterOnlyReported ==
    [][result'.op = "received_cfilter"
       => \A msg \in CFilterMsgs :
            LET height == GetBlock(tree, msg.block_hash)
            IN  (/\ CfilterVerdict(msg, headers, tree) = "Valid"
                 /\ ~rescan.active \/ height \notin rescan.requested
                 /\ ReceivedCfilter(1, msg))
                => /\ out' = <<FilterReceivedEv(1, msg.filter, height,
                                                msg.block_hash)>>
                   /\ result' = Returned("received_cfilter", "Ok", 0, <<>>)
                   /\ rescan' = rescan
                   /\ processed' = processed]_vars
\* An active rescan was handed a valid filter it had not asked for (or had
\* already consumed): the event alone came out.
C30_Witness ==
    /\ result.op = "received_cfilter"
    /\ rescan.active
    /\ Len(out) = 1
    /\ out[1].type = "FilterReceived"
    /\ out[1].height \notin rescan.requested
    /\ out[1].height \notin DOMAIN rescan.received

(***************************************************************************)
(* SpecDecode: a rescan over filters that may not decode.  As SpecScan,    *)
(* but the peer may commit, in its cfheaders, to a filter whose bytes are  *)
(* no Golomb-coded set, and deliver it.                                    *)
(***************************************************************************)
\* The hash lists a peer may send for the heights above ours: for each
\* height the hash of the block's filter or of the corrupt one.
DecodeHashLists(hs, n) ==
    {[i \in 1..n |-> IF i \in bad THEN FilterHashOf(CorruptFilter)
                     ELSE FilterHashOf(TrueFilter(CacheHeight(hs) + i))] :
        bad \in SUBSET (1..n)}
DecodeCfheaders(hs, treeHeight) ==
    {CFHeadersMsg(0, BlockHashAt(treeHeight), CacheTip(hs), hl) :
        hl \in DecodeHashLists(hs, treeHeight - CacheHeight(hs))}
DecodeCfilters ==
    [filter_type : {0}, block_hash : BlockHashes \ {UnknownBlockHash},
     filter : Filters \cup {CorruptFilter}]
NextDecode ==
    \/ PeerNegotiated(1, tree, TRUE, TRUE)
    \/ \E msg \in DecodeCfheaders(headers, tree) : ReceivedCfheaders(1, msg)
    \/ \E start \in {Included(0), Excluded(0)}, watch \in WatchLists :
         Rescan(start, Unbounded, watch)
    \/ \E msg \in DecodeCfilters : ReceivedCfilter(1, msg)
    \/ NewBlock

SpecDecode == Init /\ [][NextDecode]_vars

\* C31: while a rescan is under way, rescan.current is one more than the
\* height of its latest FilterProcessed event, or the height it started at
\* when it has processed nothing; this holds also after a filter failed to
\* decode.
C31_CurrentFollowsProcessed ==
    (rescan_result = "Ok" /\ ~crashed)
    => rescan.current = IF processed = <<>>
                        THEN (IF rescan.start = NoneH THEN rescan.current
                              ELSE rescan.start)
                        ELSE processed[Len(processed)] + 1

(***************************************************************************)
(* SpecStore: header sync over a store whose put may fail.  A peer is      *)
(* negotiated and may leave, blocks arrive, the timer fires, and the       *)
(* peer's cfheaders (of any length) are imported or hit a failing put.     *)
(***************************************************************************)
NextStore ==
    \/ PeerNegotiated(1, tree, TRUE, TRUE)
    \/ PeerDisconnected(1)
    \/ \E dt \in {0, IDLE_TIMEOUT} : ReceivedTick(dt)
    \/ \E msg \in ScanCfheaders(headers, tree) : ReceivedCfheaders(1, msg)
    \/ \E msg \in ScanCfheaders(headers, tree) :
         ReceivedCfheadersPutFails(1, msg)
    \/ NewBlock

SpecStore == Init /\ [][NextStore]_vars

\* C32: when the store's put fails during the import of a valid cfheaders,
\* received_cfheaders returns Error::Filters, emits nothing, and leaves
\* the in-memory cache as it was (same height, same tip) and equal to the
\* stored sequence.
C32_FailedPutLeavesCache ==
    [][(result'.op = "received_cfheaders" /\ result'.kind = "Filters")
       => /\ out' = <<>>
          /\ CacheHeight(headers') = CacheHeight(headers)
          /\ CacheTip(headers') = CacheTip(headers)
          /\ headers' = store']_vars

(***************************************************************************)
(* SpecLong: a rescan that follows the import of a long run of headers.    *)
(* The chain is about MAX_MESSAGE_CFILTERS blocks high and the cache      *)
(* starts at genesis; one peer is negotiated and answers the header        *)
(* request in full, the client rescans without end, the filters of the     *)
(* lowest blocks arrive.                                                   *)
(***************************************************************************)
InitLong ==
    /\ tree \in {MAX_MESSAGE_CFILTERS - 2, MAX_MESSAGE_CFILTERS - 1}
    /\ clock = 0
    /\ headers = <<GenesisStoredHeader>>
    /\ store = headers
    /\ peers = {}
    /\ rescan = RescanDefault
    /\ last_idle = NoneH
    /\ inflight = <<>>
    /\ out = <<>>
    /\ result = Returned("new", "Ok", 0, <<>>)
    /\ crashed = FALSE
    /\ processed = <<>>
    /\ returned = <<>>
    /\ delivered = {}
    /\ rescan_result = "None"
NextLong ==
    \/ PeerNegotiated(1, tree, TRUE, TRUE)
    \/ \E start \in {Included(0), Excluded(0)}, watch \in WatchLists :
         Rescan(start, Unbounded, watch)
    \/ AnswerCfheaders
    \/ \E msg \in CFilterMsgs : ReceivedCfilter(1, msg)

SpecLong == InitLong /\ [][NextLong]_vars

\* The heights a get_cfilters request covers: from its start height through
\* the height of its stop hash.
CoverOf(o) ==
    IF o.type = "get_cfilters" THEN o.height..GetBlock(tree, o.hash) ELSE {}
\* C33: a rescan without end stays active and emits no RescanCompleted;
\* and while such a rescan is active and a peer is connected, an import of
\* cfheaders that raises the cache from height F to h emits get_cfilters
\* requests that cover every height of max(F, current)..h, and adds these
\* heights to rescan.requested.
C33_UnboundedRescanKeepsAsking ==
    [][/\ (rescan_result' # "None" /\ rescan'.end = NoneH)
          => /\ rescan'.active
             /\ \A i \in 1..Len(out') : out'[i].type # "RescanCompleted"
       /\ (/\ result'.op = "received_cfheaders"
           /\ headers' # headers
           /\ rescan.active
           /\ rescan.end = NoneH
           /\ peers # {})
          => LET asked == Max(CacheHeight(headers), rescan.current)
                            ..CacheHeight(headers')
             IN  /\ asked \subseteq rescan'.requested
                 /\ asked \subseteq
                      UNION {CoverOf(out'[i]) : i \in 1..Len(out')}]_vars

\* C34: while a rescan with end e is active, no height above e is in
\* rescan.requested and no get_cfilters request just emitted covers a
\* height above e.
C34_NothingRequestedAboveEnd ==
    (rescan.active /\ rescan.end # NoneH)
    => /\ \A h \in rescan.requested : h <= rescan.end
       /\ \A i \in 1..Len(out) : \A h \in CoverOf(out[i]) : h <= rescan.end

\* C35: a rescan() that returns an error (NotConnected, InvalidRange)
\* leaves the rescan state as it was before the call, with no rescan
\* active.
C35_FailedRescanLeavesNoRescan ==
    [][(/\ result'.op = "rescan"
        /\ result'.kind \in {"NotConnected", "InvalidRange"})
       => /\ ~rescan'.active
          /\ rescan' = rescan]_vars

(***************************************************************************)
(* SpecTrip: a client syncing from a second manager.  The two share the    *)
(* block tree; the server's cache holds the filter headers of the whole    *)
(* chain.  The client's header requests are given to the server's          *)
(* received_getcfheaders and what it sends is given to the client's        *)
(* received_cfheaders.  Another, honest peer may answer instead.           *)
(***************************************************************************)
\* The getcfheaders message the client's request o arrives as.
RequestMsg(o) ==
    [filter_type |-> 0, start_height |-> o.height, stop_hash |-> o.hash]
\* What the server does with the client's request o.
ServerAnswers(o) ==
    ServeGetcfheaders(BatchChain(tree), tree, 2, RequestMsg(o))
\* The cfheaders message a send_cfheaders output arrives as.
ReplyMsg(o) == CFHeadersMsg(0, o.hash, o.aux, o.data)
\* The server answers the header request the client just emitted, and the
\* client receives the answer.
RoundTrip ==
    \E i \in 1..Len(out) :
       /\ out[i].type = "get_cfheaders"
       /\ \E served \in ServerAnswers(out[i]) :
            /\ served.out # <<>>
            /\ ReceivedCfheaders(1, ReplyMsg(served.out[1]))
NextTrip ==
    \/ PeerNegotiated(1, tree, TRUE, TRUE)
    \/ PeerDisconnected(1)
    \/ \E dt \in {0, IDLE_TIMEOUT} : ReceivedTick(dt)
    \/ RoundTrip
    \/ AnswerCfheaders
    \/ NewBlock

SpecTrip == Init /\ [][NextTrip]_vars

\* C36: when the client's sync has just emitted get_cfheaders(F + 1, stop
\* hash) with its cache at height F below the tree's height, the server
\* (whose filter-header chain is complete) answers it with a cfheaders
\* message, and the client's received_cfheaders accepts that message and
\* brings the cache to the height of the stop hash.
C36_RequestServeRoundTrip ==
    [][\A i \in 1..Len(out) :
         (out[i].type = "get_cfheaders" /\ CacheHeight(headers) < tree)
         => \A served \in ServerAnswers(out[i]) :
              /\ served.kind = "Ok"
              /\ served.out # <<>>
              /\ ReceivedCfheaders(1, ReplyMsg(served.out[1]))
                 => /\ result'.kind = "Ok"
                    /\ CacheHeight(headers') = GetBlock(tree, out[i].hash)]_vars

\* C37: no filter is kept in rescan.received for a height below
\* rescan.current.
C37_ReceivedNotBelowCurrent ==
    \A h \in DOMAIN rescan.received : h >= rescan.current

\* C38: a cfheaders message for the stop hash of the get_cfheaders request
\* just sent is not imported when its sender (peer 1 here) is not the peer
\* the request was sent to.
C38_ReplyFromRequestedPeerOnly ==
    [][\A i \in 1..Len(out) :
         (out[i].type = "get_cfheaders" /\ out[i].peer # 1)
         => \A msg \in CFHeadersInputs(headers, inflight) :
              (msg.stop_hash = out[i].hash /\ ReceivedCfheaders(1, msg))
              => headers' = headers]_vars

\* C39: a received_cfheaders that imports headers returns normally with the
\* new height, also when a rescan is active and the peer table is empty.
C39_ImportNeverAborts ==
    [][(result'.op = "received_cfheaders" /\ headers' # headers)
       => /\ ~crashed'
          /\ result' = Returned("received_cfheaders", "Ok",
                                CacheHeight(headers'), <<>>)]_vars

\* C40: after a rollback during an active rescan, rescan.current is at most
\* one above the cache's new height and no height above the new height is
\* in rescan.requested or among the keys of rescan.received.
C40_RollbackKeepsRescanConsistent ==
    [][(result'.op = "rollback" /\ headers' # headers /\ rescan.active)
       => /\ rescan'.current <= CacheHeight(headers') + 1
          /\ \A h \in rescan'.requested \cup DOMAIN rescan'.received :
               h <= CacheHeight(headers')]_vars

====
